---- MODULE Spec2Model ----
(***************************************************************************)
(* Model of the `scripts` command-line tool (main.go).                     *)
(*                                                                         *)
(* One action is one invocation of the program: main() runs to completion  *)
(* against the filesystem and exits.  The persistent state is the          *)
(* filesystem (which also holds the config file); the remaining variables  *)
(* record what the last invocation was given and what it did.              *)
(*                                                                         *)
(* Strings are sequences of one-character strings, so that HasSuffix,      *)
(* TrimSuffix, filepath.Ext, filepath.Join and strings.ToLower are         *)
(* computed the way the Go library computes them.                          *)
(***************************************************************************)
EXTENDS Integers, Sequences, FiniteSets, TLC

\* a value given a name, as by Go's `x := v`: F applied to v
With(v, F(_)) ==
    F(v)

(***************************************************************************)
(* strings                                                                 *)
(***************************************************************************)

\* strings.HasPrefix
HasPrefix(s, p) ==
    /\ Len(p) <= Len(s)
    /\ SubSeq(s, 1, Len(p)) = p

\* strings.HasSuffix
HasSuffix(s, x) ==
    /\ Len(x) <= Len(s)
    /\ SubSeq(s, Len(s) - Len(x) + 1, Len(s)) = x

\* strings.TrimSuffix
TrimSuffix(s, x) ==
    IF HasSuffix(s, x) THEN SubSeq(s, 1, Len(s) - Len(x)) ELSE s

\* the lower-case form of one character (unicode.ToLower on the alphabet used)
LowerChar(c) ==
    CASE c = "G" -> "g"
      [] c = "O" -> "o"
      [] c = "R" -> "r"
      [] c = "S" -> "s"
      [] c = "C" -> "c"
      [] c = "P" -> "p"
      [] c = "Y" -> "y"
      [] c = "V" -> "v"
      [] c = "X" -> "x"
      [] c = "T" -> "t"
      [] c = "H" -> "h"
      [] c = "M" -> "m"
      [] OTHER -> c

\* strings.ToLower
ToLower(s) ==
    [i \in 1..Len(s) |-> LowerChar(s[i])]

\* strings.Replace(s, "~", with, 1) for an s that starts with "~"
ReplaceTilde(s, with) ==
    with \o Tail(s)

(***************************************************************************)
(* path/filepath (Unix)                                                    *)
(***************************************************************************)

RECURSIVE SplitAcc(_, _, _)
SplitAcc(s, cur, acc) ==
    IF s = <<>> THEN Append(acc, cur)
    ELSE IF Head(s) = "/" THEN SplitAcc(Tail(s), <<>>, Append(acc, cur))
    ELSE SplitAcc(Tail(s), Append(cur, Head(s)), acc)

\* the path split at every separator (empty elements kept)
SplitSlash(s) ==
    SplitAcc(s, <<>>, <<>>)

RECURSIVE JoinSlash(_)
JoinSlash(comps) ==
    IF comps = <<>> THEN <<>>
    ELSE IF Len(comps) = 1 THEN comps[1]
    ELSE comps[1] \o <<"/">> \o JoinSlash(Tail(comps))

DotDot ==
    <<".", ".">>

Dot ==
    <<".">>

RECURSIVE CleanComps(_, _, _)
CleanComps(comps, acc, rooted) ==
    IF comps = <<>> THEN acc
    ELSE LET c == Head(comps) IN
         IF c = <<>> \/ c = Dot THEN CleanComps(Tail(comps), acc, rooted)
         ELSE IF c = DotDot
         THEN IF acc # <<>> /\ acc[Len(acc)] # DotDot
              THEN CleanComps(Tail(comps), SubSeq(acc, 1, Len(acc) - 1), rooted)
              ELSE IF rooted THEN CleanComps(Tail(comps), acc, rooted)
              ELSE CleanComps(Tail(comps), Append(acc, c), rooted)
         ELSE CleanComps(Tail(comps), Append(acc, c), rooted)

\* filepath.Clean: lexical; drops "." and empty elements, resolves ".."
Clean(path) ==
    IF path = <<>> THEN Dot
    ELSE LET rooted == Head(path) = "/"
             body   == JoinSlash(CleanComps(SplitSlash(path), <<>>, rooted))
         IN IF rooted THEN <<"/">> \o body
            ELSE IF body = <<>> THEN Dot ELSE body

\* filepath.Join of two elements: empty elements ignored, result cleaned
Join(a, b) ==
    IF a = <<>> /\ b = <<>> THEN <<>>
    ELSE IF a = <<>> THEN Clean(b)
    ELSE IF b = <<>> THEN Clean(a)
    ELSE Clean(a \o <<"/">> \o b)

\* the position of the last separator of the path, 0 if there is none
LastSlash(path) ==
    LET S == {i \in 1..Len(path) : path[i] = "/"}
    IN IF S = {} THEN 0 ELSE CHOOSE i \in S : \A j \in S : j <= i

RECURSIVE StripSlashes(_)
StripSlashes(path) ==
    IF Len(path) > 0 /\ path[Len(path)] = "/"
    THEN StripSlashes(SubSeq(path, 1, Len(path) - 1))
    ELSE path

\* filepath.Base: the last element of the path
Base(path) ==
    IF path = <<>> THEN Dot
    ELSE LET p == StripSlashes(path) IN
         IF p = <<>> THEN <<"/">>
         ELSE SubSeq(p, LastSlash(p) + 1, Len(p))

\* filepath.Dir: all but the last element of the path, cleaned
Dir(path) ==
    Clean(SubSeq(path, 1, LastSlash(path)))

\* filepath.Ext: the suffix starting at the last dot of the last element
Ext(path) ==
    LET last == SubSeq(path, LastSlash(path) + 1, Len(path))
        D    == {i \in 1..Len(last) : last[i] = "."}
    IN IF D = {} THEN <<>>
       ELSE SubSeq(last, CHOOSE i \in D : \A j \in D : j <= i, Len(last))

(***************************************************************************)
(* the filesystem                                                          *)
(*                                                                         *)
(* fs maps the path of every existing node (a sequence of element names,   *)
(* <<>> being the root) to [kind, data, mode, own]: kind is "dir" or       *)
(* "file", mode holds the nine permission bits as a number, own says       *)
(* whether the invoking user owns the node (only the owner may chmod).     *)
(***************************************************************************)

\* mode & bit # 0, for bit a power of two
HasBit(mode, bit) ==
    (mode \div bit) % 2 = 1

\* mode | bit, for bit a power of two
OrBit(mode, bit) ==
    IF HasBit(mode, bit) THEN mode ELSE mode + bit

\* perm &^ umask, bit by bit, under the usual umask 022 (18)
ApplyUmask(perm) ==
    LET Keep(b) == IF HasBit(perm, b) /\ ~HasBit(18, b) THEN b ELSE 0
    IN Keep(1) + Keep(2) + Keep(4) + Keep(8) + Keep(16) + Keep(32)
       + Keep(64) + Keep(128) + Keep(256)

\* the access checks of the kernel for the invoking (non-root) user
CanRead(n) ==
    IF n.own THEN HasBit(n.mode, 256) ELSE HasBit(n.mode, 4)

CanWrite(n) ==
    IF n.own THEN HasBit(n.mode, 128) ELSE HasBit(n.mode, 2)

Parent(p) ==
    IF p = <<>> THEN p ELSE SubSeq(p, 1, Len(p) - 1)

\* the working directory of the process
Cwd ==
    << <<"w">> >>

RECURSIVE WalkFrom(_, _, _)
WalkFrom(f, cur, comps) ==
    IF comps = <<>> THEN [err |-> "ok", at |-> cur, leaf |-> TRUE]
    ELSE LET c    == Head(comps)
             rest == Tail(comps)
         IN IF f[cur].kind # "dir"
            THEN [err |-> "ENOTDIR", at |-> cur, leaf |-> FALSE]
            ELSE IF c = <<>> \/ c = Dot THEN WalkFrom(f, cur, rest)
            ELSE IF c = DotDot THEN WalkFrom(f, Parent(cur), rest)
            ELSE LET nxt == Append(cur, c) IN
                 IF nxt \notin DOMAIN f
                 THEN [err |-> "ENOENT", at |-> nxt,
                       leaf |-> \A i \in 1..Len(rest) : rest[i] \in {<<>>, Dot}]
                 ELSE WalkFrom(f, nxt, rest)

\* path resolution by the kernel: relative paths start at the working
\* directory; "ok" and the node, ENOENT when an element is missing, ENOTDIR
\* when an element that must be a directory is a regular file
Lookup(f, path) ==
    IF path = <<>> THEN [err |-> "ENOENT", at |-> <<>>, leaf |-> FALSE]
    ELSE WalkFrom(f, IF Head(path) = "/" THEN <<>> ELSE Cwd, SplitSlash(path))

\* os.Stat: the error of the call ("ok" for none)
StatErr(f, path) ==
    Lookup(f, path).err

\* os.IsNotExist: true of ENOENT only
IsNotExist(err) ==
    err = "ENOENT"

\* os.Stat succeeded and info.IsDir()
StatIsDir(f, path) ==
    LET r == Lookup(f, path) IN r.err = "ok" /\ f[r.at].kind = "dir"

\* os.Chmod
Chmod(f, path, mode) ==
    LET r == Lookup(f, path) IN
    IF r.err # "ok" THEN [err |-> r.err, fs |-> f]
    ELSE IF ~f[r.at].own THEN [err |-> "EPERM", fs |-> f]
    ELSE [err |-> "ok", fs |-> [f EXCEPT ![r.at].mode = mode]]

RECURSIVE MkdirFrom(_, _, _)
MkdirFrom(f, cur, comps) ==
    IF f[cur].kind # "dir" THEN [err |-> "ENOTDIR", fs |-> f]
    ELSE IF comps = <<>> THEN [err |-> "ok", fs |-> f]
    ELSE LET c    == Head(comps)
             rest == Tail(comps)
         IN IF c = <<>> \/ c = Dot THEN MkdirFrom(f, cur, rest)
            ELSE IF c = DotDot THEN MkdirFrom(f, Parent(cur), rest)
            ELSE LET nxt == Append(cur, c) IN
                 IF nxt \in DOMAIN f THEN MkdirFrom(f, nxt, rest)
                 ELSE IF ~CanWrite(f[cur]) THEN [err |-> "EACCES", fs |-> f]
                 ELSE MkdirFrom(f @@ (nxt :> [kind |-> "dir", data |-> <<>>,
                                              mode |-> ApplyUmask(493), own |-> TRUE]),
                                nxt, rest)

\* os.MkdirAll(path, 0755): creates the directory and every missing parent;
\* no error when it is already a directory
MkdirAll(f, path) ==
    IF path = <<>> THEN [err |-> "ENOENT", fs |-> f]
    ELSE MkdirFrom(f, IF Head(path) = "/" THEN <<>> ELSE Cwd, SplitSlash(path))

\* os.ReadFile
ReadFile(f, path) ==
    LET r == Lookup(f, path) IN
    IF r.err # "ok" THEN [err |-> r.err, data |-> <<>>]
    ELSE IF f[r.at].kind = "dir" THEN [err |-> "EISDIR", data |-> <<>>]
    ELSE IF ~CanRead(f[r.at]) THEN [err |-> "EACCES", data |-> <<>>]
    ELSE [err |-> "ok", data |-> f[r.at].data]

\* os.WriteFile(path, data, perm): open(O_WRONLY|O_CREATE|O_TRUNC, perm), write.
\* An existing file keeps its mode; a new one gets perm less the umask.
WriteFile(f, path, data, perm) ==
    LET r == Lookup(f, path) IN
    IF r.err = "ok"
    THEN IF f[r.at].kind = "dir" THEN [err |-> "EISDIR", fs |-> f]
         ELSE IF ~CanWrite(f[r.at]) THEN [err |-> "EACCES", fs |-> f]
         ELSE [err |-> "ok", fs |-> [f EXCEPT ![r.at].data = data]]
    ELSE IF r.err = "ENOENT" /\ r.leaf
    THEN IF ~CanWrite(f[Parent(r.at)]) THEN [err |-> "EACCES", fs |-> f]
         ELSE [err |-> "ok",
               fs |-> f @@ (r.at :> [kind |-> "file", data |-> data,
                                     mode |-> ApplyUmask(perm), own |-> TRUE])]
    ELSE [err |-> r.err, fs |-> f]

\* the paths of the direct entries of the directory node d
Children(f, d) ==
    {p \in DOMAIN f : Len(p) = Len(d) + 1 /\ SubSeq(p, 1, Len(d)) = d}

\* a Remove that takes the rest of the directory with it
RemoveMut(f, path) ==
    LET r == Lookup(f, path) IN
    IF r.err # "ok" THEN [err |-> r.err, fs |-> f]
    ELSE [err |-> "ok", fs |-> [p \in DOMAIN f \ Children(f, Parent(r.at)) |-> f[p]]]

\* os.Remove: unlinks a file or removes an empty directory
Remove(f, path) ==
    LET r == Lookup(f, path) IN
    IF r.err # "ok" THEN [err |-> r.err, fs |-> f]
    ELSE IF r.at = <<>> \/ ~CanWrite(f[Parent(r.at)]) THEN [err |-> "EACCES", fs |-> f]
    ELSE IF f[r.at].kind = "dir" /\ Children(f, r.at) # {} THEN [err |-> "ENOTEMPTY", fs |-> f]
    ELSE [err |-> "ok", fs |-> [p \in DOMAIN f \ {r.at} |-> f[p]]]

\* the order of the characters (ASCII), for sorted directory listings
AsciiOrder ==
    <<"-", ".", "/", "C", "G", "M", "O", "R", "S", "_", "a", "b", "c", "d",
      "e", "f", "g", "h", "i", "j", "k", "l", "m", "n", "o", "p", "q", "r",
      "s", "t", "u", "v", "w", "x", "y", "z", "{", "~">>

CharRank(c) ==
    CHOOSE i \in 1..Len(AsciiOrder) : AsciiOrder[i] = c

RECURSIVE StrLess(_, _)
StrLess(a, b) ==
    IF b = <<>> THEN FALSE
    ELSE IF a = <<>> THEN TRUE
    ELSE IF Head(a) = Head(b) THEN StrLess(Tail(a), Tail(b))
    ELSE CharRank(Head(a)) < CharRank(Head(b))

RECURSIVE SortNames(_)
SortNames(S) ==
    IF S = {} THEN <<>>
    ELSE LET m == CHOOSE x \in S : \A y \in S \ {x} : StrLess(x, y)
         IN <<m>> \o SortNames(S \ {m})

\* os.ReadDir: the entries of a directory sorted by name
ReadDir(f, path) ==
    LET r == Lookup(f, path) IN
    IF r.err # "ok" THEN [err |-> r.err, names |-> <<>>]
    ELSE IF f[r.at].kind # "dir" THEN [err |-> "ENOTDIR", names |-> <<>>]
    ELSE [err |-> "ok",
          names |-> SortNames({p[Len(p)] : p \in Children(f, r.at)})]

\* filepath.Glob(filepath.Join(dir, "*" + suffix)): the matching entries of
\* dir in sorted order, each joined to dir; no entries (and no error) when
\* dir cannot be read
Glob(f, dir, suffix) ==
    LET r == ReadDir(f, dir)
        m == SelectSeq(r.names, LAMBDA n : HasSuffix(n, suffix))
    IN [i \in 1..Len(m) |-> Join(dir, m[i])]

(***************************************************************************)
(* the process environment                                                 *)
(***************************************************************************)

\* os.Executable()
ExecPath ==
    <<"/", "e", "/", "s", "c", "r", "i", "p", "t", "s">>

\* os.Getwd()
Getwd ==
    <<"/", "w">>

\* os.UserHomeDir()
UserHomeDir ==
    [err |-> "ok", dir |-> <<"/", "h">>]

(***************************************************************************)
(* main.go: helpers                                                        *)
(***************************************************************************)

\* a printed line: what it says and the name or path it is about
Msg(k, a) ==
    [k |-> k, a |-> a]

\* a started process: the program, its arguments and whether it exited 0
Proc(tool, path, args, ok) ==
    [tool |-> tool, path |-> path, args |-> args, ok |-> ok]

\* an isExecutable that accepts any of the three execute bits
isExecutableMut(f, path) ==
    LET r == Lookup(f, path) IN
    IF r.err # "ok" THEN FALSE
    ELSE HasBit(f[r.at].mode, 64) \/ HasBit(f[r.at].mode, 8) \/ HasBit(f[r.at].mode, 1)

isExecutable(f, path) ==
    LET r == Lookup(f, path) IN
    IF r.err # "ok" THEN FALSE
    ELSE HasBit(f[r.at].mode, 64)

\* a makeExecutable that reports success without changing the mode
makeExecutableMut(f, path) ==
    LET r == Lookup(f, path) IN
    IF r.err # "ok" THEN [err |-> r.err, fs |-> f]
    ELSE [err |-> "ok", fs |-> f]

\* a makeExecutable that sets the mode to 0755
makeExecutableAllMut(f, path) ==
    LET r == Lookup(f, path) IN
    IF r.err # "ok" THEN [err |-> r.err, fs |-> f]
    ELSE Chmod(f, path, 493)

makeExecutable(f, path) ==
    LET r == Lookup(f, path) IN
    IF r.err # "ok" THEN [err |-> r.err, fs |-> f]
    ELSE Chmod(f, path, OrBit(f[r.at].mode, 64))

expandPath(path) ==
    IF HasPrefix(path, <<"~">>)
    THEN IF UserHomeDir.err # "ok" THEN path
         ELSE ReplaceTilde(path, UserHomeDir.dir)
    ELSE path

\* a byte that is not valid UTF-8, and U+FFFD, the replacement rune
BadByte ==
    "0xFF"

RuneError ==
    "U+FFFD"

\* encoding/json, string encoding: a quote and a backslash are escaped with
\* a backslash, a byte that is not valid UTF-8 becomes U+FFFD
RECURSIVE Quote(_)
Quote(s) ==
    IF s = <<>> THEN <<>>
    ELSE (IF Head(s) = "\"" \/ Head(s) = "\\" THEN <<"\\", Head(s)>>
          ELSE IF Head(s) = BadByte THEN <<RuneError>>
          ELSE <<Head(s)>>) \o Quote(Tail(s))

\* encoding/json, string decoding: the character after a backslash is taken
\* as it is
RECURSIVE Unquote(_)
Unquote(q) ==
    IF q = <<>> THEN <<>>
    ELSE IF Head(q) = "\\" /\ Len(q) >= 2 THEN <<q[2]>> \o Unquote(Tail(Tail(q)))
    ELSE <<Head(q)>> \o Unquote(Tail(q))

\* encoding/json: the file text of a Config (an opening brace and the two
\* encoded values), and its parse
MarshalIndent(config) ==
    <<<<"{">>, Quote(config.ScriptDir), Quote(config.BinDir)>>

Unmarshal(data) ==
    IF Len(data) = 3 /\ data[1] = <<"{">>
    THEN [err |-> "ok", config |-> [ScriptDir |-> Unquote(data[2]), BinDir |-> Unquote(data[3])]]
    ELSE [err |-> "parse", config |-> [ScriptDir |-> <<>>, BinDir |-> <<>>]]

\* the directory that holds .config.json, as loadConfig finds it
\* a resolution that looks at the working directory first
loadConfigDirMut(f) ==
    With(Dir(ExecPath), LAMBDA execDir :
    With(Lookup(f, Join(execDir, <<"s", "c", "r", "i", "p", "t", "s">>)), LAMBDA bin :
    IF StatIsDir(f, Join(Getwd, <<"s", "c", "r", "i", "p", "t", "s", "_", "b", "i", "n">>)) THEN [err |-> "ok", dir |-> Getwd]
    ELSE IF StatIsDir(f, Join(execDir, <<"s", "c", "r", "i", "p", "t", "s", "_", "b", "i", "n">>)) THEN [err |-> "ok", dir |-> execDir]
    ELSE IF bin.err = "ok" /\ HasBit(f[bin.at].mode, 64) THEN [err |-> "ok", dir |-> execDir]
    ELSE [err |-> "ok", dir |-> Join(Join(UserHomeDir.dir, <<".", "c", "o", "n", "f", "i", "g">>), <<"s", "c", "r", "i", "p", "t", "s">>)]))

loadConfigDir(f) ==
    With(Dir(ExecPath), LAMBDA execDir :
    With(Lookup(f, Join(execDir, <<"s", "c", "r", "i", "p", "t", "s">>)), LAMBDA bin :
    With(IF StatIsDir(f, Join(execDir, <<"s", "c", "r", "i", "p", "t", "s", "_", "b", "i", "n">>)) THEN execDir
         ELSE IF bin.err = "ok" /\ HasBit(f[bin.at].mode, 64) THEN execDir
         ELSE <<>>, LAMBDA fromExe :
    With(IF fromExe # <<>> THEN fromExe
         ELSE IF StatIsDir(f, Join(Getwd, <<"s", "c", "r", "i", "p", "t", "s", "_", "b", "i", "n">>)) THEN Getwd
         ELSE <<>>, LAMBDA fromCwd :
    IF fromCwd # <<>> THEN [err |-> "ok", dir |-> fromCwd]
    ELSE IF UserHomeDir.err = "ok"
    THEN [err |-> "ok", dir |-> Join(Join(UserHomeDir.dir, <<".", "c", "o", "n", "f", "i", "g">>), <<"s", "c", "r", "i", "p", "t", "s">>)]
    ELSE [err |-> "could not determine config directory", dir |-> <<>>]))))


\* the directory that holds .config.json, as saveConfig finds it
saveConfigDir(f) ==
    With(Dir(ExecPath), LAMBDA execDir :
    With(Lookup(f, Join(execDir, <<"s", "c", "r", "i", "p", "t", "s">>)), LAMBDA bin :
    With(IF StatIsDir(f, Join(execDir, <<"s", "c", "r", "i", "p", "t", "s", "_", "b", "i", "n">>)) THEN execDir
         ELSE IF bin.err = "ok" /\ HasBit(f[bin.at].mode, 64) THEN execDir
         ELSE <<>>, LAMBDA fromExe :
    With(IF fromExe # <<>> THEN fromExe
         ELSE IF StatIsDir(f, Join(Getwd, <<"s", "c", "r", "i", "p", "t", "s", "_", "b", "i", "n">>)) THEN Getwd
         ELSE <<>>, LAMBDA fromCwd :
    IF fromCwd # <<>> THEN [err |-> "ok", dir |-> fromCwd]
    ELSE IF UserHomeDir.err = "ok"
    THEN [err |-> "ok", dir |-> Join(Join(UserHomeDir.dir, <<".", "c", "o", "n", "f", "i", "g">>), <<"s", "c", "r", "i", "p", "t", "s">>)]
    ELSE [err |-> "could not determine config directory", dir |-> <<>>]))))


saveConfig(f, config) ==
    With(saveConfigDir(f), LAMBDA d :
    IF d.err # "ok" THEN [err |-> d.err, fs |-> f]
    ELSE With(WriteFile(f, Join(d.dir, <<".", "c", "o", "n", "f", "i", "g", ".", "j", "s", "o", "n">>), MarshalIndent(config), 420), LAMBDA w :
         IF w.err # "ok" THEN [err |-> "failed to write config file", fs |-> f]
         ELSE [err |-> "ok", fs |-> w.fs]))


\* the Config of a failed load
NoConfig ==
    [ScriptDir |-> <<>>, BinDir |-> <<>>]

\* a loadConfig that replaces a config file it cannot parse by the defaults
loadConfigMut(f) ==
    With(loadConfigDir(f), LAMBDA d :
    With(Join(d.dir, <<".", "c", "o", "n", "f", "i", "g", ".", "j", "s", "o", "n">>), LAMBDA configPath :
    With([ScriptDir |-> expandPath(<<"~", "/", "c", "o", "d", "e", "/", "p", "e", "r", "s", "o", "n", "a", "l", "/", "s", "c", "r", "i", "p", "t", "s", "/", "s", "c", "r", "i", "p", "t", "s", "_", "b", "i", "n">>),
          BinDir    |-> expandPath(<<"~", "/", "o", "p", "t", "/", "p", "r", "o", "g", "r", "a", "m", "s">>)], LAMBDA defaultConfig :
    With(ReadFile(f, configPath), LAMBDA rd :
    IF rd.err = "ok" /\ Unmarshal(rd.data).err = "ok"
    THEN [err |-> "ok", config |-> Unmarshal(rd.data).config, fs |-> f]
    ELSE With(saveConfig(f, defaultConfig), LAMBDA s :
         IF s.err # "ok"
         THEN [err |-> "failed to create default config", config |-> NoConfig, fs |-> s.fs]
         ELSE [err |-> "ok", config |-> defaultConfig, fs |-> s.fs])))))

loadConfig(f) ==
    With(loadConfigDir(f), LAMBDA d :
    IF d.err # "ok" THEN [err |-> d.err, config |-> NoConfig, fs |-> f]
    ELSE With(Join(d.dir, <<".", "c", "o", "n", "f", "i", "g", ".", "j", "s", "o", "n">>), LAMBDA configPath :
         IF IsNotExist(StatErr(f, configPath))
         THEN With([ScriptDir |-> expandPath(<<"~", "/", "c", "o", "d", "e", "/", "p", "e", "r", "s", "o", "n", "a", "l", "/", "s", "c", "r", "i", "p", "t", "s", "/", "s", "c", "r", "i", "p", "t", "s", "_", "b", "i", "n">>),
                    BinDir    |-> expandPath(<<"~", "/", "o", "p", "t", "/", "p", "r", "o", "g", "r", "a", "m", "s">>)], LAMBDA defaultConfig :
              With(saveConfig(f, defaultConfig), LAMBDA s :
              IF s.err # "ok"
              THEN [err |-> "failed to create default config", config |-> NoConfig, fs |-> s.fs]
              ELSE [err |-> "ok", config |-> defaultConfig, fs |-> s.fs]))
         ELSE With(ReadFile(f, configPath), LAMBDA rd :
              IF rd.err # "ok"
              THEN [err |-> "failed to read config file", config |-> NoConfig, fs |-> f]
              ELSE With(Unmarshal(rd.data), LAMBDA u :
                   IF u.err # "ok"
                   THEN [err |-> "failed to parse config file", config |-> NoConfig, fs |-> f]
                   ELSE [err |-> "ok", config |-> u.config, fs |-> f]))))


\* the nil error
NoErr ==
    Msg("ok", <<>>)

(***************************************************************************)
(* main.go: readyScripts, addScript                                        *)
(***************************************************************************)

\* a readyFiles that stops after the first file
readyFilesMut(f, files, out) ==
    IF files = <<>> THEN [err |-> NoErr, fs |-> f, out |-> out]
    ELSE With(Head(files), LAMBDA file :
         IF ~isExecutable(f, file)
         THEN With(makeExecutable(f, file), LAMBDA m :
              With(Append(out, Msg("Making executable", Base(file))), LAMBDA o :
              IF m.err # "ok"
              THEN [err |-> Msg("failed to make executable", file), fs |-> m.fs, out |-> o]
              ELSE [err |-> NoErr, fs |-> m.fs, out |-> o]))
         ELSE [err |-> NoErr, fs |-> f,
               out |-> Append(out, Msg("already executable", Base(file)))])

RECURSIVE readyFiles(_, _, _)
\* a readyFiles that goes on with the next file after a chmod failure
readyFilesGoOnMut(f, files, out) ==
    IF files = <<>> THEN [err |-> NoErr, fs |-> f, out |-> out]
    ELSE With(Head(files), LAMBDA file :
         IF ~isExecutable(f, file)
         THEN With(makeExecutable(f, file), LAMBDA m :
              readyFiles(m.fs, Tail(files),
                         Append(out, Msg("Making executable", Base(file)))))
         ELSE readyFiles(f, Tail(files),
                         Append(out, Msg("already executable", Base(file)))))

readyFiles(f, files, out) ==
    IF files = <<>> THEN [err |-> NoErr, fs |-> f, out |-> out]
    ELSE With(Head(files), LAMBDA file :
         IF ~isExecutable(f, file)
         THEN With(makeExecutable(f, file), LAMBDA m :
              With(Append(out, Msg("Making executable", Base(file))), LAMBDA o :
              IF m.err # "ok"
              THEN [err |-> Msg("failed to make executable", file), fs |-> m.fs, out |-> o]
              ELSE readyFiles(m.fs, Tail(files), o)))
         ELSE readyFiles(f, Tail(files),
                         Append(out, Msg("already executable", Base(file)))))


RECURSIVE readyScripts(_, _, _)
readyScripts(f, paths, out) ==
    IF paths = <<>> THEN [err |-> NoErr, fs |-> f, out |-> out]
    ELSE With(Head(paths), LAMBDA path :
         IF StatIsDir(f, path)
         THEN With(readyFiles(f, Glob(f, path, <<".", "s", "h">>), out), LAMBDA r :
              IF r.err # NoErr THEN r
              ELSE readyScripts(r.fs, Tail(paths), r.out))
         ELSE With(IF HasSuffix(path, <<".", "s", "h">>) THEN path ELSE path \o <<".", "s", "h">>, LAMBDA file :
              With(readyFiles(f, <<file>>, out), LAMBDA r :
              IF r.err # NoErr THEN r
              ELSE readyScripts(r.fs, Tail(paths), r.out))))


\* an addScript that sets the mode of the copy to 0644 instead of adding the
\* owner-execute bit
addScriptMut(f, scriptPath, config) ==
    IF IsNotExist(StatErr(f, scriptPath))
    THEN [err |-> Msg("script does not exist", scriptPath), fs |-> f, out |-> <<>>]
    ELSE IF ~HasSuffix(scriptPath, <<".", "s", "h">>)
    THEN [err |-> Msg("script must have .sh extension", scriptPath), fs |-> f, out |-> <<>>]
    ELSE With(TrimSuffix(Base(scriptPath), <<".", "s", "h">>), LAMBDA scriptName :
         With(Join(config.ScriptDir, scriptName \o <<".", "s", "h">>), LAMBDA destPath :
         With(MkdirAll(f, config.ScriptDir), LAMBDA mk :
         IF mk.err # "ok"
         THEN [err |-> Msg("failed to create scripts directory", config.ScriptDir),
               fs |-> mk.fs, out |-> <<>>]
         ELSE With(ReadFile(mk.fs, scriptPath), LAMBDA rd :
              IF rd.err # "ok"
              THEN [err |-> Msg("failed to read source script", scriptPath),
                    fs |-> mk.fs, out |-> <<>>]
              ELSE With(WriteFile(mk.fs, destPath, rd.data, 420), LAMBDA wr :
                   IF wr.err # "ok"
                   THEN [err |-> Msg("failed to write script to scripts_bin", destPath),
                         fs |-> wr.fs, out |-> <<>>]
                   ELSE With(Chmod(wr.fs, destPath, 420), LAMBDA mx :
                        IF mx.err # "ok"
                        THEN [err |-> Msg("failed to make script executable", destPath),
                              fs |-> mx.fs, out |-> <<>>]
                        ELSE [err |-> NoErr, fs |-> mx.fs,
                              out |-> <<Msg("Added", scriptName \o <<".", "s", "h">>)>>]))))))

addScript(f, scriptPath, config) ==
    IF IsNotExist(StatErr(f, scriptPath))
    THEN [err |-> Msg("script does not exist", scriptPath), fs |-> f, out |-> <<>>]
    ELSE IF ~HasSuffix(scriptPath, <<".", "s", "h">>)
    THEN [err |-> Msg("script must have .sh extension", scriptPath), fs |-> f, out |-> <<>>]
    ELSE With(TrimSuffix(Base(scriptPath), <<".", "s", "h">>), LAMBDA scriptName :
         With(Join(config.ScriptDir, scriptName \o <<".", "s", "h">>), LAMBDA destPath :
         With(MkdirAll(f, config.ScriptDir), LAMBDA mk :
         IF mk.err # "ok"
         THEN [err |-> Msg("failed to create scripts directory", config.ScriptDir),
               fs |-> mk.fs, out |-> <<>>]
         ELSE With(ReadFile(mk.fs, scriptPath), LAMBDA rd :
              IF rd.err # "ok"
              THEN [err |-> Msg("failed to read source script", scriptPath),
                    fs |-> mk.fs, out |-> <<>>]
              ELSE With(WriteFile(mk.fs, destPath, rd.data, 420), LAMBDA wr :
                   IF wr.err # "ok"
                   THEN [err |-> Msg("failed to write script to scripts_bin", destPath),
                         fs |-> wr.fs, out |-> <<>>]
                   ELSE With(makeExecutable(wr.fs, destPath), LAMBDA mx :
                        IF mx.err # "ok"
                        THEN [err |-> Msg("failed to make script executable", destPath),
                              fs |-> mx.fs, out |-> <<>>]
                        ELSE [err |-> NoErr, fs |-> mx.fs,
                              out |-> <<Msg("Added", scriptName \o <<".", "s", "h">>)>>]))))))


(***************************************************************************)
(* external programs                                                       *)
(*                                                                         *)
(* What a toolchain does is outside the program: tc.ok says whether it     *)
(* exits 0 when it can, tc.out whether it leaves a file where it was told  *)
(* to: the binary when it exits 0, a partial artifact when it fails.  A    *)
(* toolchain cannot succeed on a source it cannot read or into a directory *)
(* it cannot write.                                                        *)
(***************************************************************************)

\* the contents of a compiled binary
BinData ==
    <<<<"b", "i", "n">>>>

\* a fresh executable written at path by a compiler or by cp
PutBinary(f, path) ==
    LET r == Lookup(f, path) IN
    IF r.err = "ok"
    THEN IF f[r.at].kind = "dir" \/ ~CanWrite(f[Parent(r.at)]) THEN [err |-> "EACCES", fs |-> f]
         ELSE [err |-> "ok",
               fs |-> [f EXCEPT ![r.at] = [kind |-> "file", data |-> BinData,
                                            mode |-> ApplyUmask(493), own |-> TRUE]]]
    ELSE WriteFile(f, path, BinData, 493)

\* the contents of what a failing compiler leaves behind
PartData ==
    <<<<"p", "a", "r", "t">>>>

\* a partial artifact written at path by a failing compiler: an ordinary
\* file, not marked executable
PutPartial(f, path) ==
    WriteFile(f, path, PartData, 420)

\* a compiler run as `tool args`, reading sourcePath and writing outputPath
RunCompiler(f, tool, args, sourcePath, outputPath, tc) ==
    With(ReadFile(f, sourcePath).err = "ok", LAMBDA canRead :
    With(IF ~tc.out THEN [err |-> "ok", fs |-> f]
         ELSE IF tc.ok THEN PutBinary(f, outputPath)
         ELSE PutPartial(f, outputPath), LAMBDA put :
    With(canRead /\ put.err = "ok", LAMBDA left :
    [ok |-> tc.ok /\ left, fs |-> IF left THEN put.fs ELSE f,
     procs |-> <<Proc(tool, <<>>, args, tc.ok /\ left)>>])))


\* `cargo build --release` run in dir: on success the release binary of the
\* crate, named after the source file, is at target/release
RunCargo(f, dir, sourcePath, tc) ==
    With(Join(Join(dir, <<"t", "a", "r", "g", "e", "t">>), <<"r", "e", "l", "e", "a", "s", "e">>), LAMBDA relDir :
    With(TrimSuffix(Base(sourcePath), Ext(sourcePath)), LAMBDA crate :
    With(MkdirAll(f, relDir), LAMBDA mk :
    With(IF ~tc.out \/ mk.err # "ok" THEN [err |-> mk.err, fs |-> mk.fs]
         ELSE IF tc.ok THEN PutBinary(mk.fs, Join(relDir, crate))
         ELSE PutPartial(mk.fs, Join(relDir, crate)), LAMBDA put :
    With(tc.ok /\ put.err = "ok", LAMBDA ok :
    [ok |-> ok, fs |-> IF put.err = "ok" /\ (tc.ok \/ tc.out) THEN put.fs ELSE f,
     procs |-> <<Proc("cargo", dir, <<<<"b", "u", "i", "l", "d">>, <<"-", "-", "r", "e", "l", "e", "a", "s", "e">>>>, ok)>>])))))


\* `cp src dst`
RunCp(f, src, dst) ==
    With(ReadFile(f, src), LAMBDA rd :
    With(IF rd.err # "ok" THEN [err |-> rd.err, fs |-> f]
         ELSE WriteFile(f, dst, rd.data, 493), LAMBDA wr :
    [ok |-> wr.err = "ok", fs |-> wr.fs,
     procs |-> <<Proc("cp", <<>>, <<src, dst>>, wr.err = "ok")>>]))


\* os.Rename
Rename(f, old, new) ==
    LET a == Lookup(f, old)
        b == Lookup(f, new)
    IN IF a.err # "ok" THEN [err |-> a.err, fs |-> f]
       ELSE IF b.err = "ok" /\ b.at = a.at THEN [err |-> "ok", fs |-> f]
       ELSE IF b.err = "ok" \/ (b.err = "ENOENT" /\ b.leaf)
       THEN [err |-> "ok",
             fs |-> [q \in (DOMAIN f \ {a.at}) \cup {b.at} |->
                        IF q = b.at THEN f[a.at] ELSE f[q]]]
       ELSE [err |-> b.err, fs |-> f]

\* a script run as `scriptPath args`: it cannot start unless it is a file
\* the user may execute; child says whether it then exits 0
RunScript(f, scriptPath, args, child) ==
    LET r  == Lookup(f, scriptPath)
        ok == /\ r.err = "ok"
              /\ f[r.at].kind = "file"
              /\ (IF f[r.at].own THEN HasBit(f[r.at].mode, 64) ELSE HasBit(f[r.at].mode, 1))
              /\ child
    IN [ok |-> ok, procs |-> <<Proc("script", scriptPath, args, ok)>>]

(***************************************************************************)
(* main.go: the toolchain dispatcher                                       *)
(***************************************************************************)

\* a Go branch that swallows the failure of the toolchain
compileGoMut(f, sourcePath, outputPath, tc) ==
    With(RunCompiler(f, "go", <<<<"b", "u", "i", "l", "d">>, <<"-", "o">>, outputPath, sourcePath>>,
                     sourcePath, outputPath, tc), LAMBDA r :
    [err |-> NoErr, fs |-> r.fs, procs |-> r.procs])

compileGo(f, sourcePath, outputPath, tc) ==
    With(RunCompiler(f, "go", <<<<"b", "u", "i", "l", "d">>, <<"-", "o">>, outputPath, sourcePath>>,
                     sourcePath, outputPath, tc), LAMBDA r :
    [err |-> IF r.ok THEN NoErr ELSE Msg("exit status", <<"g", "o">>),
     fs |-> r.fs, procs |-> r.procs])


compilePython(f, sourcePath, outputPath, tc) ==
    With(Join(Dir(outputPath), Base(outputPath)), LAMBDA distPath :
    With(RunCompiler(f, "pyinstaller",
                     <<<<"-", "-", "o", "n", "e", "f", "i", "l", "e">>, <<"-", "-", "d", "i", "s", "t", "p", "a", "t", "h">>, Dir(outputPath),
                       <<"-", "-", "n", "a", "m", "e">>, Base(outputPath), sourcePath>>,
                     sourcePath, distPath, tc), LAMBDA r :
    IF ~r.ok
    THEN [err |-> Msg("PyInstaller compilation failed", <<"p", "y", "i", "n", "s", "t", "a", "l", "l", "e", "r">>),
          fs |-> r.fs, procs |-> r.procs]
    ELSE IF StatErr(r.fs, distPath) = "ok"
    THEN With(Rename(r.fs, distPath, outputPath), LAMBDA mv :
         [err |-> IF mv.err = "ok" THEN NoErr ELSE Msg("rename", outputPath),
          fs |-> mv.fs, procs |-> r.procs])
    ELSE [err |-> NoErr, fs |-> r.fs, procs |-> r.procs]))


compileV(f, sourcePath, outputPath, tc) ==
    With(RunCompiler(f, "v", <<<<"-", "p", "r", "o", "d">>, <<"-", "o">>, outputPath, sourcePath>>,
                     sourcePath, outputPath, tc), LAMBDA r :
    [err |-> IF r.ok THEN NoErr ELSE Msg("exit status", <<"v">>),
     fs |-> r.fs, procs |-> r.procs])


\* a Rust branch that does not look at the exit status of cp
compileRustMut(f, sourcePath, outputPath, tc) ==
    With(Dir(sourcePath), LAMBDA dir :
    IF StatErr(f, Join(dir, <<"C", "a", "r", "g", "o", ".", "t", "o", "m", "l">>)) = "ok"
    THEN With(RunCargo(f, dir, sourcePath, tc), LAMBDA c :
         IF ~c.ok
         THEN [err |-> Msg("exit status", <<"c", "a", "r", "g", "o">>), fs |-> c.fs, procs |-> c.procs]
         ELSE With(TrimSuffix(Base(sourcePath), <<".", "r", "s">>), LAMBDA binaryName :
              With(Join(Join(Join(dir, <<"t", "a", "r", "g", "e", "t">>), <<"r", "e", "l", "e", "a", "s", "e">>), binaryName), LAMBDA srcPath :
              With(RunCp(c.fs, srcPath, outputPath), LAMBDA cp :
              [err |-> NoErr, fs |-> cp.fs, procs |-> c.procs \o cp.procs]))))
    ELSE With(RunCompiler(f, "rustc", <<<<"-", "o">>, outputPath, sourcePath>>,
                          sourcePath, outputPath, tc), LAMBDA r :
         [err |-> IF r.ok THEN NoErr ELSE Msg("exit status", <<"r", "u", "s", "t", "c">>),
          fs |-> r.fs, procs |-> r.procs]))

compileRust(f, sourcePath, outputPath, tc) ==
    With(Dir(sourcePath), LAMBDA dir :
    IF StatErr(f, Join(dir, <<"C", "a", "r", "g", "o", ".", "t", "o", "m", "l">>)) = "ok"
    THEN With(RunCargo(f, dir, sourcePath, tc), LAMBDA c :
         IF ~c.ok
         THEN [err |-> Msg("exit status", <<"c", "a", "r", "g", "o">>), fs |-> c.fs, procs |-> c.procs]
         ELSE With(TrimSuffix(Base(sourcePath), <<".", "r", "s">>), LAMBDA binaryName :
              With(Join(Join(Join(dir, <<"t", "a", "r", "g", "e", "t">>), <<"r", "e", "l", "e", "a", "s", "e">>), binaryName), LAMBDA srcPath :
              With(RunCp(c.fs, srcPath, outputPath), LAMBDA cp :
              [err |-> IF cp.ok THEN NoErr ELSE Msg("exit status", <<"c", "p">>),
               fs |-> cp.fs, procs |-> c.procs \o cp.procs]))))
    ELSE With(RunCompiler(f, "rustc", <<<<"-", "o">>, outputPath, sourcePath>>,
                          sourcePath, outputPath, tc), LAMBDA r :
         [err |-> IF r.ok THEN NoErr ELSE Msg("exit status", <<"r", "u", "s", "t", "c">>),
          fs |-> r.fs, procs |-> r.procs]))


compileC(f, sourcePath, outputPath, tc) ==
    With(RunCompiler(f, "gcc", <<<<"-", "o">>, outputPath, sourcePath>>,
                     sourcePath, outputPath, tc), LAMBDA r :
    [err |-> IF r.ok THEN NoErr ELSE Msg("exit status", <<"g", "c", "c">>),
     fs |-> r.fs, procs |-> r.procs])


\* a dispatcher that falls back to the C compiler when the C++ compiler fails
compileCppMut(f, sourcePath, outputPath, tc) ==
    With(RunCompiler(f, "g++", <<<<"-", "o">>, outputPath, sourcePath>>,
                     sourcePath, outputPath, tc), LAMBDA r :
    With(compileC(r.fs, sourcePath, outputPath, tc), LAMBDA c :
    IF r.ok THEN [err |-> NoErr, fs |-> r.fs, procs |-> r.procs]
    ELSE [err |-> c.err, fs |-> c.fs, procs |-> r.procs \o c.procs]))


compileCpp(f, sourcePath, outputPath, tc) ==
    With(RunCompiler(f, "g++", <<<<"-", "o">>, outputPath, sourcePath>>,
                     sourcePath, outputPath, tc), LAMBDA r :
    [err |-> IF r.ok THEN NoErr ELSE Msg("exit status", <<"g", "+", "+">>),
     fs |-> r.fs, procs |-> r.procs])


\* a switch whose default falls back to the C compiler
dispatchMut(f, ext, sourcePath, outputPath, tc) ==
    CASE ext = <<".", "g", "o">> -> compileGo(f, sourcePath, outputPath, tc)
      [] ext = <<".", "p", "y">> -> compilePython(f, sourcePath, outputPath, tc)
      [] ext = <<".", "v">>  -> compileV(f, sourcePath, outputPath, tc)
      [] ext = <<".", "r", "s">> -> compileRust(f, sourcePath, outputPath, tc)
      [] ext \in {<<".", "c", "p", "p">>, <<".", "c", "c">>, <<".", "c", "x", "x">>} ->
                         compileCpp(f, sourcePath, outputPath, tc)
      [] OTHER -> compileC(f, sourcePath, outputPath, tc)

\* the switch of compileSource: the branch taken for an extension
dispatch(f, ext, sourcePath, outputPath, tc) ==
    CASE ext = <<".", "g", "o">> -> compileGo(f, sourcePath, outputPath, tc)
      [] ext = <<".", "p", "y">> -> compilePython(f, sourcePath, outputPath, tc)
      [] ext = <<".", "v">>  -> compileV(f, sourcePath, outputPath, tc)
      [] ext = <<".", "r", "s">> -> compileRust(f, sourcePath, outputPath, tc)
      [] ext = <<".", "c">>  -> compileC(f, sourcePath, outputPath, tc)
      [] ext \in {<<".", "c", "p", "p">>, <<".", "c", "c">>, <<".", "c", "x", "x">>} ->
                         compileCpp(f, sourcePath, outputPath, tc)
      [] OTHER -> [err |-> Msg("unsupported file extension", ext), fs |-> f, procs |-> <<>>]

compileSource(f, sourcePath, binaryName, config, tc) ==
    IF IsNotExist(StatErr(f, sourcePath))
    THEN [err |-> Msg("source file does not exist", sourcePath),
          fs |-> f, out |-> <<>>, procs |-> <<>>]
    ELSE With(MkdirAll(f, config.BinDir), LAMBDA mk :
         IF mk.err # "ok"
         THEN [err |-> Msg("failed to create bin directory", config.BinDir),
               fs |-> mk.fs, out |-> <<>>, procs |-> <<>>]
         ELSE With(ToLower(Ext(sourcePath)), LAMBDA ext :
              With(IF binaryName = <<>>
                   THEN TrimSuffix(Base(sourcePath), Ext(sourcePath))
                   ELSE binaryName, LAMBDA name :
              With(Join(config.BinDir, name), LAMBDA outputPath :
              With(dispatch(mk.fs, ext, sourcePath, outputPath, tc), LAMBDA d :
              IF d.err # NoErr
              THEN [err |-> d.err, fs |-> d.fs, out |-> <<>>, procs |-> d.procs]
              ELSE With(makeExecutable(d.fs, outputPath), LAMBDA mx :
                   IF mx.err # "ok"
                   THEN [err |-> Msg("failed to make binary executable", outputPath),
                         fs |-> mx.fs, out |-> <<>>, procs |-> d.procs]
                   ELSE [err |-> NoErr, fs |-> mx.fs,
                         out |-> <<Msg("Compiled", outputPath)>>, procs |-> d.procs]))))))


(***************************************************************************)
(* main.go: main, one operator per command branch.  args is os.Args[1:],   *)
(* so args[1] is the command and Len(args) + 1 is len(os.Args).  A branch  *)
(* yields the filesystem it leaves, the lines it printed, the processes it *)
(* started and the exit code.                                              *)
(***************************************************************************)

Res(f, out, procs, exit) ==
    [fs |-> f, out |-> out, procs |-> procs, exit |-> exit]

Usage(command) ==
    Msg("Usage", command)

HelpWords ==
    {<<"h", "e", "l", "p">>, <<"-", "h">>, <<"-", "-", "h", "e", "l", "p">>}

Keywords ==
    HelpWords \cup {<<"r", "e", "a", "d", "y">>, <<"a", "d", "d">>, <<"c", "o", "m", "p", "i", "l", "e">>, <<"r", "m">>, <<"l", "i", "s", "t">>}

mainNoArgs(f) ==
    Res(f, <<Msg("help", <<>>)>>, <<>>, 1)

mainConfigError(f, err) ==
    Res(f, <<Msg("Error loading config", <<>>)>>, <<>>, 1)

\* a help branch that exits like the no-argument case
mainHelpMut(f) ==
    Res(f, <<Msg("help", <<>>)>>, <<>>, 1)

mainHelp(f) ==
    Res(f, <<Msg("help", <<>>)>>, <<>>, 0)

mainReady(f, config, args) ==
    IF Len(args) < 2 THEN Res(f, <<Usage(args[1])>>, <<>>, 1)
    ELSE IF args[2] = <<"-", "a">> \/ args[2] = <<"-", "-", "a", "l", "l">>
    THEN With(readyScripts(f, <<config.ScriptDir>>, <<>>), LAMBDA r :
         IF r.err # NoErr THEN Res(r.fs, Append(r.out, r.err), <<>>, 1)
         ELSE Res(r.fs, r.out, <<>>, 0))
    ELSE With({i \in 2..Len(args) : HasPrefix(args[i], <<"-">>)}, LAMBDA flags :
         IF flags # {}
         THEN Res(f, <<Msg("Unknown flag", args[CHOOSE i \in flags : \A j \in flags : i <= j]),
                       Usage(args[1])>>, <<>>, 1)
         ELSE IF Len(args) # 2 THEN Res(f, <<Usage(args[1])>>, <<>>, 1)
         ELSE With(args[2], LAMBDA scriptName :
              With(Join(config.ScriptDir, scriptName \o <<".", "s", "h">>), LAMBDA scriptPath :
              IF IsNotExist(StatErr(f, scriptPath))
              THEN Res(f, <<Msg("Script not found", scriptName)>>, <<>>, 1)
              ELSE With(makeExecutable(f, scriptPath), LAMBDA m :
                   IF m.err # "ok"
                   THEN Res(m.fs, <<Msg("Error making executable", scriptName)>>, <<>>, 1)
                   ELSE Res(m.fs, <<Msg("Made executable", scriptName)>>, <<>>, 0)))))


mainAdd(f, config, args) ==
    IF Len(args) # 2 THEN Res(f, <<Usage(args[1])>>, <<>>, 1)
    ELSE With(addScript(f, args[2], config), LAMBDA r :
         IF r.err # NoErr THEN Res(r.fs, Append(r.out, r.err), <<>>, 1)
         ELSE Res(r.fs, r.out, <<>>, 0))


\* a compile branch that drops the --name argument
mainCompileMut(f, config, args, tc) ==
    IF Len(args) < 2 THEN Res(f, <<Usage(args[1])>>, <<>>, 1)
    ELSE IF Len(args) >= 3 /\ ~(args[3] = <<"-", "-", "n", "a", "m", "e">> \/ args[3] = <<"-", "n">>)
    THEN Res(f, <<Usage(args[1])>>, <<>>, 1)
    ELSE IF Len(args) >= 3 /\ Len(args) # 4
    THEN Res(f, <<Usage(args[1])>>, <<>>, 1)
    ELSE With(compileSource(f, args[2], <<>>, config, tc), LAMBDA r :
         IF r.err # NoErr THEN Res(r.fs, Append(r.out, r.err), r.procs, 1)
         ELSE Res(r.fs, r.out, r.procs, 0))

mainCompile(f, config, args, tc) ==
    IF Len(args) < 2 THEN Res(f, <<Usage(args[1])>>, <<>>, 1)
    ELSE IF Len(args) >= 3 /\ ~(args[3] = <<"-", "-", "n", "a", "m", "e">> \/ args[3] = <<"-", "n">>)
    THEN Res(f, <<Usage(args[1])>>, <<>>, 1)
    ELSE IF Len(args) >= 3 /\ Len(args) # 4
    THEN Res(f, <<Usage(args[1])>>, <<>>, 1)
    ELSE With(args[2], LAMBDA sourcePath :
         With(IF Len(args) >= 3 THEN args[4] ELSE <<>>, LAMBDA binaryName :
         With(compileSource(f, sourcePath, binaryName, config, tc), LAMBDA r :
         IF r.err # NoErr THEN Res(r.fs, Append(r.out, r.err), r.procs, 1)
         ELSE Res(r.fs, r.out, r.procs, 0))))


mainRm(f, config, args) ==
    IF Len(args) < 2 THEN Res(f, <<Usage(args[1])>>, <<>>, 1)
    ELSE With(HasPrefix(args[2], <<"-", "-">>) \/ HasPrefix(args[2], <<"-">>), LAMBDA isFlag :
         With(isFlag /\ (args[2] = <<"-", "-", "b", "i", "n">> \/ args[2] = <<"-", "b">>), LAMBDA isBinary :
         IF isFlag /\ ~isBinary THEN Res(f, <<Usage(args[1])>>, <<>>, 1)
         ELSE IF isBinary /\ Len(args) < 3 THEN Res(f, <<Usage(args[1])>>, <<>>, 1)
         ELSE IF ~isFlag /\ Len(args) > 2 THEN Res(f, <<Usage(args[1])>>, <<>>, 1)
         ELSE IF isBinary
         THEN With(args[3], LAMBDA name :
              With(Join(config.BinDir, name), LAMBDA binPath :
              IF IsNotExist(StatErr(f, binPath))
              THEN Res(f, <<Msg("Binary not found", name)>>, <<>>, 1)
              ELSE With(Remove(f, binPath), LAMBDA rm :
                   IF rm.err # "ok"
                   THEN Res(rm.fs, <<Msg("Error removing binary", name)>>, <<>>, 1)
                   ELSE Res(rm.fs, <<Msg("Removed binary", name)>>, <<>>, 0))))
         ELSE With(args[2], LAMBDA name :
              With(Join(config.ScriptDir, name \o <<".", "s", "h">>), LAMBDA scriptPath :
              IF IsNotExist(StatErr(f, scriptPath))
              THEN Res(f, <<Msg("Script not found", name)>>, <<>>, 1)
              ELSE With(Remove(f, scriptPath), LAMBDA rm :
                   IF rm.err # "ok"
                   THEN Res(rm.fs, <<Msg("Error removing script", name)>>, <<>>, 1)
                   ELSE Res(rm.fs, <<Msg("Removed script", name)>>, <<>>, 0))))))


\* the lines of `list` about the scripts directory
\* a listScripts that reports every script as executable
listScriptsMut(f, config) ==
    IF StatErr(f, config.ScriptDir) = "ok"
    THEN With(Glob(f, config.ScriptDir, <<".", "s", "h">>), LAMBDA files :
         IF Len(files) > 0
         THEN <<Msg("Available scripts:", <<>>)>> \o
              [i \in 1..Len(files) |->
                  Msg("executable", TrimSuffix(Base(files[i]), <<".", "s", "h">>))]
         ELSE <<>>)
    ELSE <<>>

listScripts(f, config) ==
    IF StatErr(f, config.ScriptDir) = "ok"
    THEN With(Glob(f, config.ScriptDir, <<".", "s", "h">>), LAMBDA files :
         IF Len(files) > 0
         THEN <<Msg("Available scripts:", <<>>)>> \o
              [i \in 1..Len(files) |->
                  Msg(IF isExecutable(f, files[i]) THEN "executable" ELSE "not executable",
                      TrimSuffix(Base(files[i]), <<".", "s", "h">>))]
         ELSE <<>>)
    ELSE <<>>


\* the names `list` collects from the binaries directory
listBinaries(f, config) ==
    IF StatErr(f, config.BinDir) = "ok"
    THEN With(ReadDir(f, config.BinDir), LAMBDA rd :
         IF rd.err = "ok"
         THEN SelectSeq(rd.names,
                        LAMBDA n : /\ f[Lookup(f, Join(config.BinDir, n)).at].kind # "dir"
                                   /\ n # <<"s", "c", "r", "i", "p", "t", "s">>
                                   /\ isExecutable(f, Join(config.BinDir, n)))
         ELSE <<>>)
    ELSE <<>>


mainList(f, config, args) ==
    IF Len(args) > 1 THEN Res(f, <<Usage(args[1])>>, <<>>, 1)
    ELSE With(listScripts(f, config), LAMBDA scripts :
         With(listBinaries(f, config), LAMBDA binaries :
         With(IF Len(binaries) > 0
              THEN (IF scripts # <<>> THEN <<Msg("", <<>>)>> ELSE <<>>) \o
                   <<Msg("Available binaries", config.BinDir)>> \o
                   [i \in 1..Len(binaries) |-> Msg("binary", binaries[i])]
              ELSE <<>>, LAMBDA binLines :
         With(scripts # <<>> \/ Len(binaries) > 0, LAMBDA hasOutput :
         Res(f, scripts \o binLines \o
                (IF ~hasOutput THEN <<Msg("No scripts or binaries found.", <<>>)>> ELSE <<>>),
             <<>>, 0)))))


\* a run branch that reports a failing script but forgets to exit 1
mainRunMut(f, config, args, child) ==
    With(args[1], LAMBDA scriptName :
    With(Join(config.ScriptDir, scriptName \o <<".", "s", "h">>), LAMBDA scriptPath :
    IF IsNotExist(StatErr(f, scriptPath))
    THEN Res(f, <<Msg("Script not found", scriptName)>>, <<>>, 1)
    ELSE IF ~isExecutable(f, scriptPath)
    THEN Res(f, <<Msg("Script is not executable", scriptName)>>, <<>>, 1)
    ELSE With(RunScript(f, scriptPath, SubSeq(args, 2, Len(args)), child), LAMBDA r :
         IF ~r.ok THEN Res(f, <<Msg("Error running script", scriptName)>>, r.procs, 0)
         ELSE Res(f, <<>>, r.procs, 0))))


mainRun(f, config, args, child) ==
    With(args[1], LAMBDA scriptName :
    With(Join(config.ScriptDir, scriptName \o <<".", "s", "h">>), LAMBDA scriptPath :
    IF IsNotExist(StatErr(f, scriptPath))
    THEN Res(f, <<Msg("Script not found", scriptName)>>, <<>>, 1)
    ELSE IF ~isExecutable(f, scriptPath)
    THEN Res(f, <<Msg("Script is not executable", scriptName)>>, <<>>, 1)
    ELSE With(RunScript(f, scriptPath, SubSeq(args, 2, Len(args)), child), LAMBDA r :
         IF ~r.ok THEN Res(f, <<Msg("Error running script", scriptName)>>, r.procs, 1)
         ELSE Res(f, <<>>, r.procs, 0))))


(***************************************************************************)
(* the state                                                               *)
(***************************************************************************)

VARIABLES
    fs,      \* the filesystem
    pre,     \* the filesystem when the last invocation started
    argv,    \* os.Args[1:] of the last invocation
    env,     \* what the processes started by the last invocation did
    out,     \* the lines the last invocation printed
    procs,   \* the processes the last invocation started, in order
    exit,    \* the exit code of the last invocation
    n        \* the number of invocations so far

vars ==
    <<fs, pre, argv, env, out, procs, exit, n>>

\* the number of invocations in a run
MaxInvocations ==
    1

\* the number of arguments forwarded to a script
MaxForward ==
    2

(***************************************************************************)
(* the initial filesystems                                                 *)
(***************************************************************************)

DirNode(own) ==
    [kind |-> "dir", data |-> <<>>, mode |-> 493, own |-> own]

FileNode(data, mode) ==
    [kind |-> "file", data |-> data, mode |-> mode, own |-> TRUE]

Nothing ==
    [x \in {} |-> x]

\* the configured directories of an existing config file
ScriptDirPath ==
    <<"/", "s">>

BinDirPath ==
    <<"/", "b">>

\* what is always there (all of it the user's own): the installed binary in
\* /e, the home directory /h, the regular file /n, and the working directory /w with the user's
\* sources, /w/k being a Cargo project
BaseFS ==
    (<<>> :> DirNode(TRUE))
    @@ (<<<<"e">>>> :> DirNode(TRUE))
    @@ (<<<<"e">>, <<"s", "c", "r", "i", "p", "t", "s">>>> :> FileNode(BinData, 493))
    @@ (<<<<"h">>>> :> DirNode(TRUE))
    @@ (<<<<"n">>>> :> FileNode(<<<<"n">>>>, 420))
    @@ (<<<<"w">>>> :> DirNode(TRUE))
    @@ (<<<<"w">>, <<"a", ".", "s", "h">>>> :> FileNode(<<<<"d", "1">>>>, 420))
    @@ (<<<<"w">>, <<"t", ".", "t", "x", "t">>>> :> FileNode(<<<<"d", "1">>>>, 420))
    @@ (<<<<"w">>, <<"u", ".", "T", "X", "T">>>> :> FileNode(<<<<"d", "1">>>>, 420))
    @@ (<<<<"w">>, <<"m", "k">>>> :> FileNode(<<<<"d", "1">>>>, 420))
    @@ (<<<<"w">>, <<"m", ".", "g", "o">>>> :> FileNode(<<<<"d", "1">>>>, 420))
    @@ (<<<<"w">>, <<"M", ".", "G", "O">>>> :> FileNode(<<<<"d", "1">>>>, 420))
    @@ (<<<<"w">>, <<"m", ".", "p", "y">>>> :> FileNode(<<<<"d", "1">>>>, 420))
    @@ (<<<<"w">>, <<"m", ".", "v">>>> :> FileNode(<<<<"d", "1">>>>, 420))
    @@ (<<<<"w">>, <<"m", ".", "r", "s">>>> :> FileNode(<<<<"d", "1">>>>, 420))
    @@ (<<<<"w">>, <<"m", ".", "c">>>> :> FileNode(<<<<"d", "1">>>>, 420))
    @@ (<<<<"w">>, <<"m", ".", "c", "p", "p">>>> :> FileNode(<<<<"d", "1">>>>, 420))
    @@ (<<<<"w">>, <<"m", ".", "c", "c">>>> :> FileNode(<<<<"d", "1">>>>, 420))
    @@ (<<<<"w">>, <<"m", ".", "c", "x", "x">>>> :> FileNode(<<<<"d", "1">>>>, 420))
    @@ (<<<<"w">>, <<"k">>>> :> DirNode(TRUE))
    @@ (<<<<"w">>, <<"k">>, <<"C", "a", "r", "g", "o", ".", "t", "o", "m", "l">>>> :> FileNode(<<<<"d", "1">>>>, 420))
    @@ (<<<<"w">>, <<"k">>, <<"m", ".", "r", "s">>>> :> FileNode(<<<<"d", "1">>>>, 420))
    @@ (<<<<"w">>, <<"k">>, <<"M", ".", "R", "S">>>> :> FileNode(<<<<"d", "1">>>>, 420))

\* a well-formed config file, and one that is not JSON
ValidConfig ==
    <<<<"e">>, <<".", "c", "o", "n", "f", "i", "g", ".", "j", "s", "o", "n">>>> :>
        FileNode(MarshalIndent([ScriptDir |-> ScriptDirPath, BinDir |-> BinDirPath]), 420)

BadConfig ==
    <<<<"e">>, <<".", "c", "o", "n", "f", "i", "g", ".", "j", "s", "o", "n">>>> :> FileNode(<<<<"g", "a", "r", "b", "a", "g", "e">>>>, 420)

\* the scripts directory: missing, a regular file, or a directory holding
\* a.sh (mode 0644 or 0755) and b.sh (mode 0755, or 0655: executable for
\* group and others but not for the owner)
ScriptDirOptions ==
    { Nothing, <<<<"s">>>> :> FileNode(<<<<"n">>>>, 420) }
    \cup
    { (<<<<"s">>>> :> DirNode(TRUE)) @@ a @@ b :
        a \in { Nothing,
                <<<<"s">>, <<"a", ".", "s", "h">>>> :> FileNode(<<<<"d", "2">>>>, 420),
                <<<<"s">>, <<"a", ".", "s", "h">>>> :> FileNode(<<<<"d", "2">>>>, 493) },
        b \in { Nothing,
                <<<<"s">>, <<"b", ".", "s", "h">>>> :> FileNode(<<<<"d", "3">>>>, 493),
                <<<<"s">>, <<"b", ".", "s", "h">>>> :> FileNode(<<<<"d", "3">>>>, 429) } }

\* the binaries directory: missing, a regular file, or a directory holding
\* the binaries m and k
BinDirOptions ==
    { Nothing, <<<<"b">>>> :> FileNode(<<<<"n">>>>, 420) }
    \cup
    { (<<<<"b">>>> :> DirNode(TRUE)) @@ m :
        m \in { Nothing,
                <<<<"b">>, <<"m">>>> :> FileNode(BinData, 493),
                (<<<<"b">>, <<"m">>>> :> FileNode(BinData, 493))
                  @@ (<<<<"b">>, <<"k">>>> :> FileNode(BinData, 493)) } }

\* a populated scripts and binaries directory
FullDirs ==
    (<<<<"s">>>> :> DirNode(TRUE))
    @@ (<<<<"s">>, <<"a", ".", "s", "h">>>> :> FileNode(<<<<"d", "2">>>>, 493))
    @@ (<<<<"b">>>> :> DirNode(TRUE))
    @@ (<<<<"b">>, <<"m">>>> :> FileNode(BinData, 493))

\* the filesystems a run starts from: every state of the two directories
\* under a well-formed config file, and populated directories under a
\* missing and under a malformed one
InitFS ==
    { BaseFS @@ ValidConfig @@ s @@ b : s \in ScriptDirOptions, b \in BinDirOptions }
    \cup { BaseFS @@ FullDirs, BaseFS @@ BadConfig @@ FullDirs }

(***************************************************************************)
(* the inputs                                                              *)
(***************************************************************************)

RECURSIVE SeqsUpTo(_, _)
SeqsUpTo(S, k) ==
    IF k = 0 THEN {<<>>}
    ELSE LET shorter == SeqsUpTo(S, k - 1) IN
         shorter \cup {Append(q, x) : q \in shorter, x \in S}

HelpArgs ==
    { <<<<"h", "e", "l", "p">>>>, <<<<"-", "h">>>>, <<<<"-", "-", "h", "e", "l", "p">>>>, <<<<"h", "e", "l", "p">>, <<"x">>>> }

ReadyArgs ==
    { <<<<"r", "e", "a", "d", "y">>>>, <<<<"r", "e", "a", "d", "y">>, <<"-", "a">>>>, <<<<"r", "e", "a", "d", "y">>, <<"-", "-", "a", "l", "l">>>>,
      <<<<"r", "e", "a", "d", "y">>, <<"a">>>>, <<<<"r", "e", "a", "d", "y">>, <<"a", ".", "s", "h">>>>, <<<<"r", "e", "a", "d", "y">>, <<"z", "z">>>>,
      <<<<"r", "e", "a", "d", "y">>, <<"-", "x">>>>, <<<<"r", "e", "a", "d", "y">>, <<"a">>, <<"b">>>>,
      <<<<"r", "e", "a", "d", "y">>, <<"-", "a">>, <<"x">>>> }

AddArgs ==
    { <<<<"a", "d", "d">>>>, <<<<"a", "d", "d">>, <<"a", ".", "s", "h">>>>, <<<<"a", "d", "d">>, <<"t", ".", "t", "x", "t">>>>,
      <<<<"a", "d", "d">>, <<"z", "z", ".", "s", "h">>>>, <<<<"a", "d", "d">>, <<"z", "z", ".", "t", "x", "t">>>>,
      <<<<"a", "d", "d">>, <<"/", "n", "/", "x", ".", "s", "h">>>>, <<<<"a", "d", "d">>, <<"/", "s", "/", "a", ".", "s", "h">>>>,
      <<<<"a", "d", "d">>, <<"a", ".", "s", "h">>, <<"b", ".", "s", "h">>>> }

CompileArgs ==
    { <<<<"c", "o", "m", "p", "i", "l", "e">>>>,
      <<<<"c", "o", "m", "p", "i", "l", "e">>, <<"m", ".", "g", "o">>>>, <<<<"c", "o", "m", "p", "i", "l", "e">>, <<"M", ".", "G", "O">>>>,
      <<<<"c", "o", "m", "p", "i", "l", "e">>, <<"m", ".", "p", "y">>>>, <<<<"c", "o", "m", "p", "i", "l", "e">>, <<"m", ".", "v">>>>,
      <<<<"c", "o", "m", "p", "i", "l", "e">>, <<"m", ".", "r", "s">>>>, <<<<"c", "o", "m", "p", "i", "l", "e">>, <<"k", "/", "m", ".", "r", "s">>>>, <<<<"c", "o", "m", "p", "i", "l", "e">>, <<"k", "/", "M", ".", "R", "S">>>>,
      <<<<"c", "o", "m", "p", "i", "l", "e">>, <<"m", ".", "c">>>>,
      <<<<"c", "o", "m", "p", "i", "l", "e">>, <<"m", ".", "c", "p", "p">>>>, <<<<"c", "o", "m", "p", "i", "l", "e">>, <<"m", ".", "c", "c">>>>,
      <<<<"c", "o", "m", "p", "i", "l", "e">>, <<"m", ".", "c", "x", "x">>>>,
      <<<<"c", "o", "m", "p", "i", "l", "e">>, <<"t", ".", "t", "x", "t">>>>, <<<<"c", "o", "m", "p", "i", "l", "e">>, <<"u", ".", "T", "X", "T">>>>,
      <<<<"c", "o", "m", "p", "i", "l", "e">>, <<"m", "k">>>>,
      <<<<"c", "o", "m", "p", "i", "l", "e">>, <<"z", "z", ".", "g", "o">>>>, <<<<"c", "o", "m", "p", "i", "l", "e">>, <<"z", "z", ".", "t", "x", "t">>>>,
      <<<<"c", "o", "m", "p", "i", "l", "e">>, <<"/", "n", "/", "x", ".", "g", "o">>>>,
      <<<<"c", "o", "m", "p", "i", "l", "e">>, <<"m", ".", "g", "o">>, <<"-", "-", "n", "a", "m", "e">>, <<"g">>>>,
      <<<<"c", "o", "m", "p", "i", "l", "e">>, <<"m", ".", "g", "o">>, <<"-", "n">>, <<"g">>>>,
      <<<<"c", "o", "m", "p", "i", "l", "e">>, <<"m", ".", "g", "o">>, <<"-", "-", "n", "a", "m", "e">>>>,
      <<<<"c", "o", "m", "p", "i", "l", "e">>, <<"m", ".", "g", "o">>, <<"g">>>> }

RmArgs ==
    { <<<<"r", "m">>>>, <<<<"r", "m">>, <<"a">>>>, <<<<"r", "m">>, <<"z", "z">>>>,
      <<<<"r", "m">>, <<".", ".", "/", "n", "/", "x">>>>, <<<<"r", "m">>, <<"-", "-", "b", "i", "n">>, <<".", ".", "/", "n", "/", "x">>>>,
      <<<<"r", "m">>, <<"-", "-", "b", "i", "n">>, <<"m">>>>, <<<<"r", "m">>, <<"-", "b">>, <<"m">>>>,
      <<<<"r", "m">>, <<"-", "-", "b", "i", "n">>, <<"z", "z">>>>, <<<<"r", "m">>, <<"-", "-", "b", "i", "n">>>>,
      <<<<"r", "m">>, <<"-", "x">>>>, <<<<"r", "m">>, <<"a">>, <<"b">>>>,
      <<<<"r", "m">>, <<"-", "-", "b", "i", "n">>, <<"m">>, <<"x">>>>,
      <<<<"r", "m">>, <<".", ".", "/", "w", "/", "a">>>>,
      <<<<"r", "m">>, <<"-", "-", "b", "i", "n">>, <<".", ".", "/", "w", "/", "m", "k">>>> }

ListArgs ==
    { <<<<"l", "i", "s", "t">>>>, <<<<"l", "i", "s", "t">>, <<"x">>>> }

\* first tokens that are no keyword
ScriptNames ==
    { <<"a">>, <<"b">>, <<"z", "z">>, <<".", ".", "/", "n", "/", "x">> }

RunArgs ==
    { <<name>> : name \in ScriptNames }
    \cup { <<<<"a">>>> \o rest : rest \in SeqsUpTo({<<"x">>, <<"-", "a">>}, MaxForward) }

\* what a toolchain may do: fail, fail leaving a partial artifact, succeed
\* and write its output, or succeed without writing it
ToolOutcomes ==
    { [ok |-> FALSE, out |-> FALSE], [ok |-> FALSE, out |-> TRUE],
      [ok |-> TRUE, out |-> TRUE], [ok |-> TRUE, out |-> FALSE] }

\* the record of env for an invocation that started no process
NoEnv ==
    [child |-> TRUE, tc |-> [ok |-> TRUE, out |-> TRUE]]

(***************************************************************************)
(* the specification                                                       *)
(***************************************************************************)

Init ==
    /\ fs \in InitFS
    /\ pre = fs
    /\ argv = <<>>
    /\ env = NoEnv
    /\ out = <<>>
    /\ procs = <<>>
    /\ exit = 0
    /\ n = 0

\* the program ran once with args and ended as r
Invoke(args, e, r) ==
    /\ n' = n + 1
    /\ pre' = fs
    /\ fs' = r.fs
    /\ argv' = args
    /\ env' = IF r.procs = <<>> THEN NoEnv ELSE e
    /\ out' = r.out
    /\ procs' = r.procs
    /\ exit' = r.exit

NoArgs ==
    /\ n < MaxInvocations
    /\ Invoke(<<>>, NoEnv, mainNoArgs(fs))

ConfigError ==
    /\ n < MaxInvocations
    /\ \E lc \in {loadConfig(fs)} :
       /\ lc.err # "ok"
       /\ \E args \in HelpArgs \cup ReadyArgs \cup AddArgs \cup CompileArgs \cup RmArgs
                      \cup ListArgs \cup RunArgs :
              Invoke(args, NoEnv, mainConfigError(lc.fs, lc.err))

HelpCmd ==
    /\ n < MaxInvocations
    /\ \E lc \in {loadConfig(fs)} :
       /\ lc.err = "ok"
       /\ \E args \in HelpArgs :
              Invoke(args, NoEnv, mainHelp(lc.fs))

\* one invocation of ready
ReadyStep ==
    \E lc \in {loadConfig(fs)} :
    /\ lc.err = "ok"
    /\ \E args \in ReadyArgs :
           Invoke(args, NoEnv, mainReady(lc.fs, lc.config, args))

ReadyCmd ==
    n < MaxInvocations /\ ReadyStep

\* one invocation of add
AddStep ==
    \E lc \in {loadConfig(fs)} :
    /\ lc.err = "ok"
    /\ \E args \in AddArgs :
           Invoke(args, NoEnv, mainAdd(lc.fs, lc.config, args))

AddCmd ==
    n < MaxInvocations /\ AddStep

CompileCmd ==
    /\ n < MaxInvocations
    /\ \E lc \in {loadConfig(fs)} :
       /\ lc.err = "ok"
       /\ \E args \in CompileArgs, tc \in ToolOutcomes :
              Invoke(args, [child |-> TRUE, tc |-> tc],
                     mainCompile(lc.fs, lc.config, args, tc))

RmCmd ==
    /\ n < MaxInvocations
    /\ \E lc \in {loadConfig(fs)} :
       /\ lc.err = "ok"
       /\ \E args \in RmArgs :
              Invoke(args, NoEnv, mainRm(lc.fs, lc.config, args))

\* one invocation of list
ListStep ==
    \E lc \in {loadConfig(fs)} :
    /\ lc.err = "ok"
    /\ \E args \in ListArgs :
           Invoke(args, NoEnv, mainList(lc.fs, lc.config, args))

ListCmd ==
    n < MaxInvocations /\ ListStep

\* one invocation of a script
RunStep ==
    \E lc \in {loadConfig(fs)} :
    /\ lc.err = "ok"
    /\ \E args \in RunArgs, child \in BOOLEAN :
           /\ args[1] \notin Keywords
           /\ Invoke(args, [child |-> child, tc |-> NoEnv.tc],
                     mainRun(lc.fs, lc.config, args, child))

RunCmd ==
    n < MaxInvocations /\ RunStep

Next ==
    \/ NoArgs
    \/ ConfigError
    \/ HelpCmd
    \/ ReadyCmd
    \/ AddCmd
    \/ CompileCmd
    \/ RmCmd
    \/ ListCmd
    \/ RunCmd

Spec ==
    Init /\ [][Next]_vars

(***************************************************************************)
(* vocabulary of the properties                                            *)
(***************************************************************************)

\* an invocation has happened
Ran ==
    n > 0

\* what loadConfig did at the start of the last invocation
LC ==
    loadConfig(pre)

\* the last invocation got past loadConfig with a command
Loaded ==
    Ran /\ Len(argv) > 0 /\ LC.err = "ok"

HasMsg(k) ==
    \E i \in 1..Len(out) : out[i].k = k

\* the names of the programs started, in order
ToolSeq ==
    [i \in 1..Len(procs) |-> procs[i].tool]

\* the node path of a cleaned absolute path
NodePath(path) ==
    SelectSeq(SplitSlash(path), LAMBDA c : c # <<>>)

\* node p is directory d or lies below it
Under(p, d) ==
    Len(p) >= Len(d) /\ SubSeq(p, 1, Len(d)) = d

\* directory d and everything below it is the same in filesystems f and g
SameTree(f, g, d) ==
    \A p \in DOMAIN f \cup DOMAIN g :
        Under(p, d) => (p \in DOMAIN f /\ p \in DOMAIN g /\ f[p] = g[p])

\* the last invocation was `add <path>`
IsAdd ==
    Loaded /\ argv[1] = <<"a", "d", "d">> /\ Len(argv) = 2

\* the last invocation was `compile <source>` or `compile <source> --name <binary>`
IsCompile ==
    /\ Loaded
    /\ argv[1] = <<"c", "o", "m", "p", "i", "l", "e">>
    /\ \/ Len(argv) = 2
       \/ Len(argv) = 4 /\ argv[3] \in {<<"-", "-", "n", "a", "m", "e">>, <<"-", "n">>}

\* the last invocation was `rm <name>`
IsRmScript ==
    Loaded /\ argv[1] = <<"r", "m">> /\ Len(argv) = 2 /\ ~HasPrefix(argv[2], <<"-">>)

\* the last invocation was `rm --bin <name>`
IsRmBinary ==
    Loaded /\ argv[1] = <<"r", "m">> /\ Len(argv) = 3 /\ argv[2] \in {<<"-", "-", "b", "i", "n">>, <<"-", "b">>}

\* the file an rm invocation names
RmTarget ==
    IF IsRmBinary THEN Join(LC.config.BinDir, argv[3])
    ELSE Join(LC.config.ScriptDir, argv[2] \o <<".", "s", "h">>)

SupportedExts ==
    {<<".", "g", "o">>, <<".", "p", "y">>, <<".", "v">>, <<".", "r", "s">>, <<".", "c">>,
     <<".", "c", "p", "p">>, <<".", "c", "c">>, <<".", "c", "x", "x">>}

\* the programs the toolchain of an extension may start
BranchOf(ext) ==
    CASE ext = <<".", "g", "o">> -> {<<"go">>}
      [] ext = <<".", "p", "y">> -> {<<"pyinstaller">>}
      [] ext = <<".", "v">>  -> {<<"v">>}
      [] ext = <<".", "r", "s">> -> {<<"rustc">>, <<"cargo">>, <<"cargo", "cp">>}
      [] ext = <<".", "c">>  -> {<<"gcc">>}
      [] ext \in {<<".", "c", "p", "p">>, <<".", "c", "c">>, <<".", "c", "x", "x">>} -> {<<"g++">>}
      [] OTHER -> {<<>>}

\* the binaries directory exists or can be created
BinDirCreatable ==
    MkdirAll(LC.fs, LC.config.BinDir).err = "ok"

\* no file has appeared in the binaries directory
NoNewBinary ==
    \A p \in DOMAIN fs \ DOMAIN pre :
        Under(p, NodePath(LC.config.BinDir)) => fs[p].kind = "dir"

(***************************************************************************)
(* C1..C10                                                                 *)
(***************************************************************************)

\* C1: in the run branch (first token no keyword), a script file that does
\* not exist gives "not found" and no process; one that exists without the
\* owner-execute bit gives "not executable" and no process; otherwise the
\* script is started exactly once with the remaining arguments, in order.
C1_RunBranch ==
    (Loaded /\ argv[1] \notin Keywords) =>
        LET scriptPath == Join(LC.config.ScriptDir, argv[1] \o <<".", "s", "h">>)
            r          == Lookup(LC.fs, scriptPath)
        IN IF r.err # "ok"
           THEN out = <<Msg("Script not found", argv[1])>> /\ procs = <<>> /\ exit = 1
           ELSE IF ~HasBit(LC.fs[r.at].mode, 64)
           THEN out = <<Msg("Script is not executable", argv[1])>> /\ procs = <<>> /\ exit = 1
           ELSE /\ Len(procs) = 1
                /\ procs[1].tool = "script"
                /\ procs[1].path = scriptPath
                /\ procs[1].args = Tail(argv)

\* the lines a successful command prints
SuccessLines ==
    {"help", "Made executable", "Making executable", "already executable", "Added",
     "Compiled", "Removed binary", "Removed script", "Available scripts:", "executable",
     "not executable", "", "Available binaries", "binary", "No scripts or binaries found."}

\* the last invocation had no command, reported a usage or operational
\* error, or started a process that failed
Failed ==
    \/ argv = <<>>
    \/ \E i \in 1..Len(out) : out[i].k \notin SuccessLines
    \/ \E i \in 1..Len(procs) : ~procs[i].ok

C3_HelpInEveryState ==
    (Ran /\ Len(argv) > 0 /\ argv[1] \in HelpWords) =>
        out = <<Msg("help", <<>>)>> /\ exit = 0

\* C3 amended: help, -h and --help print the usage text and exit 0 when the
\* config loads; when it does not they print the load error and exit 1.
C3_HelpWhenConfigLoads ==
    (Ran /\ Len(argv) > 0 /\ argv[1] \in HelpWords) =>
        IF LC.err = "ok"
        THEN out = <<Msg("help", <<>>)>> /\ exit = 0
        ELSE out = <<Msg("Error loading config", <<>>)>> /\ exit = 1

\* help was asked for on a first run (no config file yet) and printed
C3_Witness ==
    /\ Loaded
    /\ argv[1] \in HelpWords
    /\ <<<<"e">>, <<".", "c", "o", "n", "f", "i", "g", ".", "j", "s", "o", "n">>>> \notin DOMAIN pre
    /\ out = <<Msg("help", <<>>)>>
    /\ exit = 0

\* the source node and the destination node of a successful add
AddSource ==
    Lookup(pre, argv[2]).at

AddDest ==
    Lookup(fs, Join(LC.config.ScriptDir, Base(argv[2])))

\* a successful add left the scripts directory in place and the copy in it,
\* with the bytes of the source and the owner-execute bit, and the content
\* of the source as it was
AddCopied ==
    /\ StatIsDir(fs, LC.config.ScriptDir)
    /\ AddDest.err = "ok"
    /\ fs[AddDest.at].kind = "file"
    /\ fs[AddDest.at].data = pre[AddSource].data
    /\ HasBit(fs[AddDest.at].mode, 64)
    /\ AddSource \in DOMAIN fs
    /\ fs[AddSource].data = pre[AddSource].data

\* C4 as stated: after a successful add the destination has the source's
\* bytes and the owner-execute bit, and the source has its old content and
\* its old mode.
C4_AddLeavesSource ==
    (IsAdd /\ exit = 0) =>
        AddCopied /\ fs[AddSource].mode = pre[AddSource].mode

\* C4 amended: as stated, except that a source which is the destination file
\* itself gains the owner-execute bit (its mode becomes old mode | 0100).
C4_AddCopies ==
    (IsAdd /\ exit = 0) =>
        /\ AddCopied
        /\ fs[AddSource].mode = IF AddSource = AddDest.at
                                THEN OrBit(pre[AddSource].mode, 64)
                                ELSE pre[AddSource].mode

\* an add succeeded into a scripts directory that did not exist before
C4_Witness ==
    /\ IsAdd
    /\ exit = 0
    /\ NodePath(LC.config.ScriptDir) \notin DOMAIN pre
    /\ AddSource # AddDest.at

\* C5: add on a path that does not exist, or that lacks the .sh suffix, fails
\* and leaves the scripts directory as it was (not created, nothing in it
\* created or changed).
C5_AddFailureLeavesDir ==
    (IsAdd /\ (StatErr(pre, argv[2]) # "ok" \/ ~HasSuffix(argv[2], <<".", "s", "h">>))) =>
        /\ exit = 1
        /\ SameTree(pre, fs, NodePath(LC.config.ScriptDir))

\* C6: rm of a script or binary that is absent prints "not found", exits
\* non-zero and changes nothing in the scripts and binaries directories.
C6_RmAbsent ==
    ((IsRmScript \/ IsRmBinary) /\ StatErr(pre, RmTarget) # "ok") =>
        /\ out = <<Msg(IF IsRmBinary THEN "Binary not found" ELSE "Script not found",
                       argv[Len(argv)])>>
        /\ exit # 0
        /\ SameTree(pre, fs, NodePath(LC.config.ScriptDir))
        /\ SameTree(pre, fs, NodePath(LC.config.BinDir))

\* C7: rm of a script or binary that exists (a file in a directory the user
\* may write) deletes it and exits 0, and every other entry of the scripts
\* and binaries directories is unchanged.
C7_RmExisting ==
    LET t == Lookup(pre, RmTarget) IN
    ((IsRmScript \/ IsRmBinary) /\ t.err = "ok" /\ pre[t.at].kind = "file"
        /\ CanWrite(pre[Parent(t.at)])) =>
        /\ exit = 0
        /\ t.at \notin DOMAIN fs
        /\ \A p \in (DOMAIN pre \cup DOMAIN fs) \ {t.at} :
              (Under(p, NodePath(LC.config.ScriptDir)) \/ Under(p, NodePath(LC.config.BinDir)))
                  => (p \in DOMAIN pre /\ p \in DOMAIN fs /\ fs[p] = pre[p])

\* a.sh was removed from a scripts directory that also holds b.sh
C7_Witness ==
    /\ IsRmScript
    /\ argv[2] = <<"a">>
    /\ <<<<"s">>, <<"a", ".", "s", "h">>>> \in DOMAIN pre
    /\ <<<<"s">>, <<"a", ".", "s", "h">>>> \notin DOMAIN fs
    /\ <<<<"s">>, <<"b", ".", "s", "h">>>> \in DOMAIN fs
    /\ exit = 0

\* the extension compile dispatches on
CompileExt ==
    ToLower(Ext(argv[2]))

C9_MissingSource ==
    (IsCompile /\ StatErr(pre, argv[2]) # "ok") =>
        /\ out = <<Msg("source file does not exist", argv[2])>>
        /\ exit = 1
        /\ procs = <<>>

\* C10: for an existing source, once the binaries directory exists or has
\* been created (the step before the dispatch), compile starts exactly the
\* toolchain of the lower-cased extension and no other; when the directory
\* cannot be created no toolchain is started at all.
C10_OneToolchain ==
    (IsCompile /\ StatErr(pre, argv[2]) = "ok") =>
        IF BinDirCreatable THEN ToolSeq \in BranchOf(CompileExt)
        ELSE procs = <<>>

\* M.GO went to the Go toolchain, and only to it
C10_Witness ==
    /\ IsCompile
    /\ argv[2] = <<"M", ".", "G", "O">>
    /\ ToolSeq = <<"go">>

\* every process the last invocation started exited 0, and there was one
ToolchainSucceeded ==
    procs # <<>> /\ \A i \in 1..Len(procs) : procs[i].ok

\* the path compile puts the binary at: the explicit name if one was given,
\* else the source file name less its extension, inside the binaries directory
CompileOutput ==
    Join(LC.config.BinDir,
         IF Len(argv) = 4 THEN argv[4]
         ELSE SubSeq(Base(argv[2]), 1, Len(Base(argv[2])) - Len(Ext(argv[2]))))

\* C11: when the toolchain of a compile succeeds, either the binary is at
\* <binDir>/<name> with its owner-execute bit set, "Compiled" is reported and
\* the exit code is 0, or setting the bit failed (the file is missing or not
\* the user's), the failure is reported and the exit code is 1.
C11_CompileSuccess ==
    (IsCompile /\ ToolchainSucceeded) =>
        LET o == Lookup(fs, CompileOutput) IN
        \/ /\ out = <<Msg("Compiled", CompileOutput)>>
           /\ exit = 0
           /\ o.err = "ok"
           /\ fs[o.at].kind = "file"
           /\ HasBit(fs[o.at].mode, 64)
        \/ /\ out = <<Msg("failed to make binary executable", CompileOutput)>>
           /\ exit = 1
           /\ (o.err # "ok" \/ ~fs[o.at].own)

\* m.go was compiled under the explicit name g
C11_Witness ==
    /\ IsCompile
    /\ argv = <<<<"c", "o", "m", "p", "i", "l", "e">>, <<"m", ".", "g", "o">>, <<"-", "-", "n", "a", "m", "e">>, <<"g">>>>
    /\ ToolchainSucceeded
    /\ out = <<Msg("Compiled", <<"/", "b", "/", "g">>)>>
    /\ <<<<"b">>, <<"g">>>> \in DOMAIN fs
    /\ <<<<"b">>, <<"g">>>> \notin DOMAIN pre

\* the toolchain exited 0 without leaving a binary, so the chmod failed
C11_WitnessChmodFails ==
    /\ IsCompile
    /\ ToolchainSucceeded
    /\ out = <<Msg("failed to make binary executable", CompileOutput)>>
    /\ exit = 1

\* a process the last invocation started exited non-zero or did not start
ToolchainFailed ==
    \E i \in 1..Len(procs) : ~procs[i].ok

\* C12: when a toolchain of a compile fails, compile reports the failure of
\* that toolchain and exits 1; the failing process is the last one started
\* and no program was started twice; "Compiled" is not reported; the file at
\* the output path, if there is one, has the mode it had before or, when the
\* toolchain created it, no owner-execute bit; nothing that existed before is
\* removed, and a partial artifact the toolchain left at the output path is
\* still there.
C12_CompileFailure ==
    (IsCompile /\ ToolchainFailed) =>
        LET o == Lookup(fs, CompileOutput) IN
        /\ exit = 1
        /\ Len(out) = 1
        /\ out[1].k \in {"exit status", "PyInstaller compilation failed"}
        /\ ~procs[Len(procs)].ok
        /\ \A i \in 1..(Len(procs) - 1) : procs[i].ok
        /\ \A i, j \in 1..Len(procs) : procs[i].tool = procs[j].tool => i = j
        /\ o.err = "ok" =>
              IF o.at \in DOMAIN pre THEN fs[o.at].mode = pre[o.at].mode
              ELSE ~HasBit(fs[o.at].mode, 64)
        /\ DOMAIN pre \subseteq DOMAIN fs
        /\ (/\ env.tc.out
            /\ Len(procs) = 1
            /\ procs[1].tool # "cargo"
            /\ ReadFile(pre, argv[2]).err = "ok") =>
              (o.err = "ok" /\ fs[o.at].data = PartData)

\* the Go toolchain failed on m.go and left a partial artifact at /b/m,
\* which is still there and not executable
C12_Witness ==
    /\ IsCompile
    /\ argv = <<<<"c", "o", "m", "p", "i", "l", "e">>, <<"m", ".", "g", "o">>>>
    /\ ToolchainFailed
    /\ <<<<"b">>, <<"m">>>> \notin DOMAIN pre
    /\ <<<<"b">>, <<"m">>>> \in DOMAIN fs
    /\ fs[<<<<"b">>, <<"m">>>>].data = PartData
    /\ ~HasBit(fs[<<<<"b">>, <<"m">>>>].mode, 64)
    /\ exit = 1

\* the last invocation was ready -a or ready --all with a loaded config
IsReadyAll ==
    /\ Ran
    /\ Loaded
    /\ Len(argv) >= 2
    /\ argv[1] = <<"r", "e", "a", "d", "y">>
    /\ argv[2] \in {<<"-", "a">>, <<"-", "-", "a", "l", "l">>}

\* the *.sh entries of the scripts directory before the invocation
ScriptFiles ==
    Glob(pre, LC.config.ScriptDir, <<".", "s", "h">>)

\* C13: when ready -a exits 0 on a scripts directory, every *.sh entry of the
\* directory has the owner-execute bit afterwards, and the report has one
\* line per entry: "already executable" exactly for the entries that had the
\* bit before, "Making executable" exactly for those that had not.
C13_ReadyAll ==
    (IsReadyAll /\ exit = 0 /\ StatIsDir(pre, LC.config.ScriptDir)) =>
        /\ Len(out) = Len(ScriptFiles)
        /\ \A i \in 1..Len(ScriptFiles) :
              /\ isExecutable(fs, ScriptFiles[i])
              /\ out[i].a = Base(ScriptFiles[i])
              /\ out[i].k = "already executable" <=> isExecutable(pre, ScriptFiles[i])
              /\ out[i].k = "Making executable" <=> ~isExecutable(pre, ScriptFiles[i])

\* ready -a on a directory holding a.sh without the bit and b.sh with it
C13_Witness ==
    /\ IsReadyAll
    /\ exit = 0
    /\ Len(ScriptFiles) = 2
    /\ ~isExecutable(pre, <<"/", "s", "/", "a", ".", "s", "h">>)
    /\ isExecutable(pre, <<"/", "s", "/", "b", ".", "s", "h">>)
    /\ isExecutable(fs, <<"/", "s", "/", "a", ".", "s", "h">>)
    /\ out = <<Msg("Making executable", <<"a", ".", "s", "h">>), Msg("already executable", <<"b", ".", "s", "h">>)>>

\* ready -a on a directory where neither script had the owner-execute bit
C13_WitnessBoth ==
    /\ IsReadyAll
    /\ exit = 0
    /\ out = <<Msg("Making executable", <<"a", ".", "s", "h">>), Msg("Making executable", <<"b", ".", "s", "h">>)>>
    /\ fs[<<<<"s">>, <<"b", ".", "s", "h">>>>].mode = 493

\* the last invocation was ready <name> with a loaded config
IsReadySingle ==
    /\ Ran
    /\ Loaded
    /\ Len(argv) = 2
    /\ argv[1] = <<"r", "e", "a", "d", "y">>
    /\ ~HasPrefix(argv[2], <<"-">>)

\* <scriptDir>/<name>.sh, with .sh appended only when the name lacks it
ReadyTarget ==
    Join(LC.config.ScriptDir,
         IF HasSuffix(argv[2], <<".", "s", "h">>) THEN argv[2] ELSE argv[2] \o <<".", "s", "h">>)

\* C14: ready <name> addresses <scriptDir>/<name>.sh, appending .sh only
\* when the name lacks it: when that file is absent the command reports
\* "Script not found", exits 1 and changes nothing; otherwise the file has
\* the owner-execute bit afterwards (or the chmod failed and was reported).
C14_ReadySingle ==
    IsReadySingle =>
        IF Lookup(pre, ReadyTarget).err # "ok"
        THEN /\ out = <<Msg("Script not found", argv[2])>>
             /\ exit = 1
             /\ fs = pre
        ELSE \/ isExecutable(fs, ReadyTarget) /\ exit = 0
             \/ out = <<Msg("Error making executable", argv[2])>> /\ exit = 1

(***************************************************************************)
(* isExecutable and makeExecutable on their own: a directory /d holding    *)
(* one file f of any permission bits, owned by the user or not, and the    *)
(* two helpers applied to existing, missing and un-stat-able paths         *)
(***************************************************************************)

\* the permission bits of a file: 0000 .. 0777
Modes ==
    0..511

ModeFS(m, own) ==
    (<<>> :> DirNode(TRUE))
    @@ (<<<<"d">>>> :> DirNode(TRUE))
    @@ (<<<<"d">>, <<"f">>>> :> [kind |-> "file", data |-> <<<<"d", "1">>>>, mode |-> m, own |-> own])
    @@ (<<<<"n">>>> :> FileNode(<<<<"n">>>>, 420))

\* the file, a missing entry, an entry below a regular file, the directory
ModePaths ==
    { <<"/", "d", "/", "f">>, <<"/", "d", "/", "z", "z">>, <<"/", "n", "/", "x">>, <<"/", "d">> }

ModeInit ==
    /\ fs \in { ModeFS(m, own) : m \in Modes, own \in BOOLEAN }
    /\ pre = fs
    /\ argv = <<>>
    /\ env = NoEnv
    /\ out = <<>>
    /\ procs = <<>>
    /\ exit = 0
    /\ n = 0

\* isExecutable(path) is called; out holds the result
IsExecutableCall ==
    /\ n < MaxInvocations
    /\ \E path \in ModePaths :
          Invoke(<<<<"i", "s", "E", "x", "e", "c", "u", "t", "a", "b", "l", "e">>, path>>, NoEnv,
                 Res(fs, <<Msg(IF isExecutable(fs, path) THEN "true" ELSE "false", path)>>,
                     <<>>, 0))

\* makeExecutable(path) is called; out holds the error, exit whether there
\* was one
MakeExecutableCall ==
    /\ n < MaxInvocations
    /\ \E path \in ModePaths :
       \E m \in {makeExecutable(fs, path)} :
          Invoke(<<<<"m", "a", "k", "e", "E", "x", "e", "c", "u", "t", "a", "b", "l", "e">>, path>>, NoEnv,
                 Res(m.fs, <<Msg(m.err, path)>>, <<>>, IF m.err = "ok" THEN 0 ELSE 1))

ModeNext ==
    \/ IsExecutableCall
    \/ MakeExecutableCall

ModeSpec ==
    ModeInit /\ [][ModeNext]_vars

\* the node a path named before the call
Target ==
    Lookup(pre, argv[2])

\* C15: isExecutable returns false for every path that does not exist or
\* cannot be stat'ed, and for every existing path returns true exactly when
\* the owner-execute bit of its mode is set, whatever the group and other
\* execute bits are; it changes nothing.
C15_IsExecutable ==
    (n > 0 /\ argv[1] = <<"i", "s", "E", "x", "e", "c", "u", "t", "a", "b", "l", "e">>) =>
        /\ fs = pre
        /\ out[1].k \in {"true", "false"}
        /\ Target.err # "ok" => out[1].k = "false"
        /\ Target.err = "ok" =>
              (out[1].k = "true" <=> (pre[Target.at].mode % 128) >= 64)

\* isExecutable said no for a file of mode 0655: group and others may execute
\* it, the owner may not
C15_Witness ==
    /\ n > 0
    /\ argv = <<<<"i", "s", "E", "x", "e", "c", "u", "t", "a", "b", "l", "e">>, <<"/", "d", "/", "f">>>>
    /\ pre[<<<<"d">>, <<"f">>>>].mode = 429
    /\ out[1].k = "false"

\* isExecutable said no for a path below a regular file
C15_WitnessNoStat ==
    /\ n > 0
    /\ argv = <<<<"i", "s", "E", "x", "e", "c", "u", "t", "a", "b", "l", "e">>, <<"/", "n", "/", "x">>>>
    /\ out[1].k = "false"

\* the permission bits other than owner-execute
OtherBits ==
    {1, 2, 4, 8, 16, 32, 128, 256}

\* C16: makeExecutable on an existing path that returns no error leaves the
\* mode at exactly the old mode with the owner-execute bit added: isExecutable
\* holds afterwards and every other permission bit is as before, and nothing
\* else in the filesystem changes; it returns an error for an existing path
\* only when the user does not own it; on a path that does not exist it
\* returns an error and the filesystem is as before.
C16_MakeExecutable ==
    (n > 0 /\ argv[1] = <<"m", "a", "k", "e", "E", "x", "e", "c", "u", "t", "a", "b", "l", "e">>) =>
        IF Target.err = "ok"
        THEN IF exit = 0
             THEN /\ isExecutable(fs, argv[2])
                  /\ \A b \in OtherBits :
                        HasBit(fs[Target.at].mode, b) <=> HasBit(pre[Target.at].mode, b)
                  /\ fs = [pre EXCEPT ![Target.at].mode = fs[Target.at].mode]
             ELSE /\ ~pre[Target.at].own
                  /\ fs = pre
        ELSE /\ exit = 1
             /\ fs = pre

\* makeExecutable turned mode 0654 into 0754
C16_Witness ==
    /\ n > 0
    /\ argv = <<<<"m", "a", "k", "e", "E", "x", "e", "c", "u", "t", "a", "b", "l", "e">>, <<"/", "d", "/", "f">>>>
    /\ pre[<<<<"d">>, <<"f">>>>].mode = 428
    /\ fs[<<<<"d">>, <<"f">>>>].mode = 492
    /\ exit = 0

\* makeExecutable on a missing path returned an error and created nothing
C16_WitnessMissing ==
    /\ n > 0
    /\ argv = <<<<"m", "a", "k", "e", "E", "x", "e", "c", "u", "t", "a", "b", "l", "e">>, <<"/", "d", "/", "z", "z">>>>
    /\ exit = 1
    /\ DOMAIN fs = DOMAIN pre

(***************************************************************************)
(* saveConfig and loadConfig on their own: the three places the config     *)
(* file can resolve to (next to the executable, the working directory,     *)
(* the home directory), with and without a config file, and configs whose  *)
(* paths hold characters that encoding/json rewrites                       *)
(***************************************************************************)

\* the number of calls in a run
MaxCalls ==
    2

ConfigName ==
    <<".", "c", "o", "n", "f", "i", "g", ".", "j", "s", "o", "n">>

OldConfig ==
    FileNode(MarshalIndent([ScriptDir |-> ScriptDirPath, BinDir |-> BinDirPath]), 420)

\* sub: the directory of the executable holds scripts_bin; exe: it holds an
\* executable named scripts; cwd: the working directory holds scripts_bin;
\* home: ~/.config/scripts exists; old: the candidate directories that exist
\* hold a config file
ConfigFS(sub, exe, cwd, home, old) ==
    (<<>> :> DirNode(TRUE))
    @@ (<<<<"e">>>> :> DirNode(TRUE))
    @@ (<<<<"h">>>> :> DirNode(TRUE))
    @@ (<<<<"w">>>> :> DirNode(TRUE))
    @@ (IF sub THEN <<<<"e">>, <<"s", "c", "r", "i", "p", "t", "s", "_", "b", "i", "n">>>> :> DirNode(TRUE) ELSE Nothing)
    @@ (IF exe THEN <<<<"e">>, <<"s", "c", "r", "i", "p", "t", "s">>>> :> FileNode(BinData, 493) ELSE Nothing)
    @@ (IF cwd THEN <<<<"w">>, <<"s", "c", "r", "i", "p", "t", "s", "_", "b", "i", "n">>>> :> DirNode(TRUE) ELSE Nothing)
    @@ (IF home THEN (<<<<"h">>, <<".", "c", "o", "n", "f", "i", "g">>>> :> DirNode(TRUE))
                     @@ (<<<<"h">>, <<".", "c", "o", "n", "f", "i", "g">>, <<"s", "c", "r", "i", "p", "t", "s">>>> :> DirNode(TRUE))
        ELSE Nothing)
    @@ (IF old THEN (<<<<"e">>, <<".", "c", "o", "n", "f", "i", "g", ".", "j", "s", "o", "n">>>> :> OldConfig)
                    @@ (<<<<"w">>, <<".", "c", "o", "n", "f", "i", "g", ".", "j", "s", "o", "n">>>> :> OldConfig)
                    @@ (IF home THEN <<<<"h">>, <<".", "c", "o", "n", "f", "i", "g">>, <<"s", "c", "r", "i", "p", "t", "s">>, <<".", "c", "o", "n", "f", "i", "g", ".", "j", "s", "o", "n">>>> :> OldConfig
                        ELSE Nothing)
        ELSE Nothing)

\* paths: plain, with a quote, with a backslash, with a byte that is not
\* valid UTF-8, with a leading tilde
ConfigStrings ==
    { <<"/", "s">>, <<"/", "a", "\"", "b">>, <<"/", "c", "\\", "d">>, <<"/", BadByte>>,
      <<"~", "/", "t">> }

Configs ==
    { [ScriptDir |-> a, BinDir |-> b] :
        a \in ConfigStrings, b \in {<<"/", "b">>, <<"/", BadByte, "b">>} }

ConfigInit ==
    /\ fs \in { ConfigFS(sub, exe, cwd, home, old) : sub, exe, cwd, home, old \in BOOLEAN }
    /\ pre = fs
    /\ argv = <<>>
    /\ env = NoEnv
    /\ out = <<>>
    /\ procs = <<>>
    /\ exit = 0
    /\ n = 0

\* saveConfig(config) is called; out holds the error
SaveCall ==
    /\ n < MaxCalls
    /\ \E config \in Configs :
       \E s \in {saveConfig(fs, config)} :
          Invoke(<<<<"s", "a", "v", "e", "C", "o", "n", "f", "i", "g">>, config.ScriptDir, config.BinDir>>, NoEnv,
                 Res(s.fs, <<Msg(s.err, config)>>, <<>>, IF s.err = "ok" THEN 0 ELSE 1))

\* loadConfig() is called; out holds the error and the Config returned
LoadCall ==
    /\ n < MaxCalls
    /\ \E lc \in {loadConfig(fs)} :
          Invoke(<<<<"l", "o", "a", "d", "C", "o", "n", "f", "i", "g">>>>, NoEnv,
                 Res(lc.fs, <<Msg(lc.err, lc.config)>>, <<>>, IF lc.err = "ok" THEN 0 ELSE 1))

ConfigNext ==
    \/ SaveCall
    \/ LoadCall

ConfigSpec ==
    ConfigInit /\ [][ConfigNext]_vars

\* the last call was saveConfig / loadConfig
IsSave ==
    n > 0 /\ argv[1] = <<"s", "a", "v", "e", "C", "o", "n", "f", "i", "g">>

IsLoad ==
    n > 0 /\ argv[1] = <<"l", "o", "a", "d", "C", "o", "n", "f", "i", "g">>

\* C17: a load that follows a successful save(cfg) succeeds and returns the
\* scriptDir and binDir of cfg, and reads the file the save wrote.
C17_RoundTrip ==
    [][(IsSave /\ exit = 0 /\ n' = n + 1 /\ argv'[1] = <<"l", "o", "a", "d", "C", "o", "n", "f", "i", "g">>) =>
          /\ exit' = 0
          /\ out'[1].a = [ScriptDir |-> argv[2], BinDir |-> argv[3]]
          /\ loadConfigDir(fs) = saveConfigDir(pre)]_vars

\* neither path of the saved config holds a byte that is not valid UTF-8
ValidUTF8 ==
    \A i \in {2, 3} : \A j \in 1..Len(argv[i]) : argv[i][j] # BadByte

\* C17, for configs whose paths are valid UTF-8: the round trip holds
C17_RoundTripUTF8 ==
    [][(IsSave /\ exit = 0 /\ ValidUTF8 /\ n' = n + 1 /\ argv'[1] = <<"l", "o", "a", "d", "C", "o", "n", "f", "i", "g">>) =>
          /\ exit' = 0
          /\ out'[1].a = [ScriptDir |-> argv[2], BinDir |-> argv[3]]
          /\ loadConfigDir(fs) = saveConfigDir(pre)]_vars

\* the config file of an environment
ConfigPath(f) ==
    Join(loadConfigDir(f).dir, ConfigName)

\* the defaults of a first run
DefaultConfig ==
    [ScriptDir |-> <<"/", "h", "/", "c", "o", "d", "e", "/", "p", "e", "r", "s", "o", "n", "a", "l", "/", "s", "c", "r", "i", "p", "t", "s", "/", "s", "c", "r", "i", "p", "t", "s", "_", "b", "i", "n">>,
     BinDir |-> <<"/", "h", "/", "o", "p", "t", "/", "p", "r", "o", "g", "r", "a", "m", "s">>]

\* C18: when no config file exists at the resolved location, load succeeds
\* and returns the tilde-expanded defaults, the file exists afterwards, and
\* a second load returns the same values without changing anything.
C18_FirstRun ==
    (IsLoad /\ Lookup(pre, ConfigPath(pre)).err # "ok") =>
        /\ exit = 0
        /\ out[1].a = DefaultConfig
        /\ Lookup(fs, ConfigPath(pre)).err = "ok"
        /\ loadConfig(fs) = [err |-> "ok", config |-> DefaultConfig, fs |-> fs]

\* C18, where the directory that is to hold the config file exists
C18_FirstRunDirExists ==
    (IsLoad /\ Lookup(pre, ConfigPath(pre)).err # "ok"
            /\ StatIsDir(pre, loadConfigDir(pre).dir)) =>
        /\ exit = 0
        /\ out[1].a = DefaultConfig
        /\ Lookup(fs, ConfigPath(pre)).err = "ok"
        /\ loadConfig(fs) = [err |-> "ok", config |-> DefaultConfig, fs |-> fs]

\* C19: when the directory that is to hold .config.json does not exist,
\* save succeeds and afterwards the directory and the file exist.
C19_SaveCreatesParents ==
    (IsSave /\ ~StatIsDir(pre, saveConfigDir(pre).dir)) =>
        /\ exit = 0
        /\ StatIsDir(fs, saveConfigDir(pre).dir)
        /\ Lookup(fs, Join(saveConfigDir(pre).dir, ConfigName)).err = "ok"

\* the last invocation was list with no further argument
IsList ==
    Ran /\ argv = <<<<"l", "i", "s", "t">>>>

\* the lines of the report that name a script, a binary
ScriptLines ==
    {i \in 1..Len(out) : out[i].k \in {"executable", "not executable"}}

BinaryLines ==
    {i \in 1..Len(out) : out[i].k = "binary"}

\* what list has to report: exit 0, nothing changed after the config was
\* loaded, for each *.sh entry of the scripts directory exactly one line,
\* naming it without the extension and giving the status isExecutable gives,
\* and the empty-state message exactly when no script and no binary was
\* listed
ListReport ==
    /\ exit = 0
    /\ fs = LC.fs
    /\ \A j \in 1..Len(ScriptFiles) :
          /\ Cardinality({i \in ScriptLines :
                out[i].a = TrimSuffix(Base(ScriptFiles[j]), <<".", "s", "h">>)}) = 1
          /\ \E i \in ScriptLines :
                /\ out[i].a = TrimSuffix(Base(ScriptFiles[j]), <<".", "s", "h">>)
                /\ out[i].k = "executable" <=> isExecutable(pre, ScriptFiles[j])
    /\ Cardinality(ScriptLines) = Len(ScriptFiles)
    /\ HasMsg("No scripts or binaries found.") <=> (ScriptLines = {} /\ BinaryLines = {})

\* C20 as stated: list exits 0 and reports as above in every state.
C20_ListEveryState ==
    IsList => ListReport

\* C20: when the config loads, list exits 0 and reports as above.
C20_ListWhenConfigLoads ==
    (IsList /\ Loaded) => ListReport

\* list on a scripts directory holding a.sh (0644) and b.sh (0655) and a
\* binaries directory holding m
C20_Witness ==
    /\ IsList
    /\ Loaded
    /\ out = <<Msg("Available scripts:", <<>>),
               Msg("not executable", <<"a">>), Msg("not executable", <<"b">>),
               Msg("", <<>>),
               Msg("Available binaries", BinDirPath), Msg("binary", <<"m">>)>>
    /\ exit = 0

\* list with nothing to list
C20_WitnessEmpty ==
    /\ IsList
    /\ Loaded
    /\ out = <<Msg("No scripts or binaries found.", <<>>)>>
    /\ exit = 0

\* the arguments match the form the CLI table gives for the command
WellFormed ==
    CASE argv[1] = <<"l", "i", "s", "t">> -> Len(argv) = 1
      [] argv[1] = <<"r", "e", "a", "d", "y">> ->
            Len(argv) = 2 /\ (argv[2] \in {<<"-", "a">>, <<"-", "-", "a", "l", "l">>} \/ ~HasPrefix(argv[2], <<"-">>))
      [] argv[1] = <<"a", "d", "d">> -> Len(argv) = 2
      [] argv[1] = <<"c", "o", "m", "p", "i", "l", "e">> ->
            Len(argv) = 2 \/ (Len(argv) = 4 /\ argv[3] \in {<<"-", "-", "n", "a", "m", "e">>, <<"-", "n">>})
      [] argv[1] = <<"r", "m">> ->
            \/ Len(argv) = 2 /\ ~HasPrefix(argv[2], <<"-">>)
            \/ Len(argv) = 3 /\ argv[2] \in {<<"-", "-", "b", "i", "n">>, <<"-", "b">>}
      [] OTHER -> TRUE

\* C21: an invocation of ready, add, compile, rm or list whose arguments do
\* not match the command's form prints a usage message, exits non-zero and
\* leaves the filesystem as it was after the config was loaded.
C21_UsageErrors ==
    (Ran /\ Loaded /\ ~WellFormed) =>
        /\ HasMsg("Usage")
        /\ exit # 0
        /\ fs = LC.fs

\* C21 without the two forms that take a flag first: surplus arguments after
\* rm --bin <name> and after ready -a are not looked at
C21_UsageErrorsChecked ==
    (Ran /\ Loaded /\ ~WellFormed
         /\ ~(argv[1] = <<"r", "m">> /\ Len(argv) > 3 /\ argv[2] \in {<<"-", "-", "b", "i", "n">>, <<"-", "b">>})
         /\ ~(argv[1] = <<"r", "e", "a", "d", "y">> /\ Len(argv) > 2 /\ argv[2] \in {<<"-", "a">>, <<"-", "-", "a", "l", "l">>})) =>
        /\ HasMsg("Usage")
        /\ exit # 0
        /\ fs = LC.fs

\* compile of an existing .rs source (any letter case) reached the toolchain
IsRustCompile ==
    /\ IsCompile
    /\ CompileExt = <<".", "r", "s">>
    /\ StatErr(pre, argv[2]) = "ok"
    /\ BinDirCreatable

\* the source's directory holds Cargo.toml
HasManifest ==
    StatErr(pre, Join(Dir(argv[2]), <<"C", "a", "r", "g", "o", ".", "t", "o", "m", "l">>)) = "ok"

\* target/release/<source file name with its extension stripped>
ReleaseBinary ==
    Join(Join(Join(Dir(argv[2]), <<"t", "a", "r", "g", "e", "t">>), <<"r", "e", "l", "e", "a", "s", "e">>),
         SubSeq(Base(argv[2]), 1, Len(Base(argv[2])) - Len(Ext(argv[2]))))

\* what compile has to start for a .rs source: with a manifest, the release
\* build in the source's directory and, when that succeeds, cp of the
\* release binary to the output path; without one, rustc to the output path
\* and nothing else
RustProcs ==
    IF HasManifest
    THEN /\ Len(procs) >= 1
         /\ procs[1].tool = "cargo"
         /\ procs[1].path = Dir(argv[2])
         /\ procs[1].args = <<<<"b", "u", "i", "l", "d">>, <<"-", "-", "r", "e", "l", "e", "a", "s", "e">>>>
         /\ IF procs[1].ok
            THEN /\ Len(procs) = 2
                 /\ procs[2].tool = "cp"
                 /\ procs[2].args = <<ReleaseBinary, CompileOutput>>
            ELSE Len(procs) = 1
    ELSE /\ Len(procs) = 1
         /\ procs[1].tool = "rustc"
         /\ procs[1].args = <<<<"-", "o">>, CompileOutput, argv[2]>>

\* C22: compile of a .rs source, the extension in any letter case, starts
\* the processes RustProcs describes.
C22_Rust ==
    IsRustCompile => RustProcs

\* C22 for sources whose extension is the lower-case .rs
C22_RustLowerCase ==
    (IsRustCompile /\ Ext(argv[2]) = <<".", "r", "s">>) => RustProcs

\* the project build succeeded and the copy of the release binary failed
CopyFailed ==
    /\ IsCompile
    /\ Len(procs) = 2
    /\ procs[1].tool = "cargo"
    /\ procs[1].ok
    /\ procs[2].tool = "cp"
    /\ ~procs[2].ok

\* C23: when the project build succeeds and the copy of the release binary
\* fails, compile reports the failure of cp and exits 1; it does not report
\* "Compiled", and what the output path names is as it was before.
C23_CopyFailure ==
    CopyFailed =>
        /\ exit = 1
        /\ out = <<Msg("exit status", <<"c", "p">>)>>
        /\ ~HasMsg("Compiled")
        /\ LET a == Lookup(pre, CompileOutput)
               b == Lookup(fs, CompileOutput)
           IN /\ a.err = "ok" <=> b.err = "ok"
              /\ a.err = "ok" => fs[b.at] = pre[a.at]

\* cargo build succeeded for k/m.rs without leaving target/release/m, while
\* a binary m from an earlier compile is in the binaries directory
C23_Witness ==
    /\ CopyFailed
    /\ argv = <<<<"c", "o", "m", "p", "i", "l", "e">>, <<"k", "/", "m", ".", "r", "s">>>>
    /\ Lookup(fs, ReleaseBinary).err # "ok"
    /\ Lookup(pre, CompileOutput).err = "ok"
    /\ exit = 1

(***************************************************************************)
(* the commands that work on the scripts directory, from scripts           *)
(* directories whose files may belong to another user                      *)
(***************************************************************************)

\* a script of the scripts directory: absent, or with mode 0644 or 0755,
\* the user's own or not
ScriptOptions(name) ==
    { Nothing }
    \cup { <<<<"s">>>> \o <<name>> :> [kind |-> "file", data |-> <<<<"d", "2">>>>, mode |-> m, own |-> o] :
             m \in {420, 493}, o \in BOOLEAN }

\* the scripts directory with a.sh, b.sh and c.sh; or no scripts directory,
\* or a regular file in its place, with or without a file /s.sh beside it
ScriptsFS ==
    { BaseFS @@ ValidConfig @@ (<<<<"s">>>> :> DirNode(TRUE)) @@ a @@ b @@ c :
        a \in ScriptOptions(<<"a", ".", "s", "h">>), b \in ScriptOptions(<<"b", ".", "s", "h">>),
        c \in { Nothing, <<<<"s">>, <<"c", ".", "s", "h">>>> :> FileNode(<<<<"d", "3">>>>, 420) } }
    \cup
    { BaseFS @@ ValidConfig @@ s @@ x :
        s \in { Nothing, <<<<"s">>>> :> FileNode(<<<<"n">>>>, 420) },
        x \in { Nothing, <<<<"s", ".", "s", "h">>>> :> FileNode(<<<<"d", "4">>>>, 420) } }

ScriptsInit ==
    /\ fs \in ScriptsFS
    /\ pre = fs
    /\ argv = <<>>
    /\ env = NoEnv
    /\ out = <<>>
    /\ procs = <<>>
    /\ exit = 0
    /\ n = 0

\* the number of invocations in a run of these commands
MaxSteps ==
    2

ScriptsList ==
    n < MaxSteps /\ ListStep

ScriptsReady ==
    n < MaxSteps /\ ReadyStep

ScriptsAdd ==
    n < MaxSteps /\ AddStep

ScriptsRun ==
    n < MaxSteps /\ RunStep

ScriptsNext ==
    \/ ScriptsList
    \/ ScriptsReady
    \/ ScriptsAdd
    \/ ScriptsRun

ScriptsSpec ==
    ScriptsInit /\ [][ScriptsNext]_vars

\* chmod of the file fails: it lacks the owner-execute bit and is not the
\* user's
ChmodFails(file) ==
    /\ ~isExecutable(pre, file)
    /\ ~pre[Lookup(pre, file).at].own

\* the places in the enumeration of ready -a where chmod fails
FailingFiles ==
    {i \in 1..Len(ScriptFiles) : ChmodFails(ScriptFiles[i])}

\* C24: in ready -a, at the first file whose chmod fails the command
\* reports that failure and exits non-zero; the files before it have the
\* owner-execute bit, that file and every later file are as they were, and
\* no line of the report is about a later file.
C24_ReadyAbort ==
    (IsReadyAll /\ StatIsDir(pre, LC.config.ScriptDir) /\ FailingFiles # {}) =>
        LET k == CHOOSE i \in FailingFiles : \A j \in FailingFiles : i <= j IN
        /\ exit # 0
        /\ Len(out) = k + 1
        /\ out[k + 1] = Msg("failed to make executable", ScriptFiles[k])
        /\ \A j \in 1..k : out[j].a = Base(ScriptFiles[j])
        /\ \A j \in 1..(k - 1) : isExecutable(fs, ScriptFiles[j])
        /\ \A j \in k..Len(ScriptFiles) :
              fs[Lookup(fs, ScriptFiles[j]).at] = pre[Lookup(pre, ScriptFiles[j]).at]
        /\ DOMAIN fs = DOMAIN pre

\* ready -a made a.sh executable, failed on b.sh, which belongs to another
\* user, and left c.sh without the bit
C24_Witness ==
    /\ IsReadyAll
    /\ Len(ScriptFiles) = 3
    /\ FailingFiles = {2}
    /\ ~isExecutable(pre, <<"/", "s", "/", "a", ".", "s", "h">>)
    /\ isExecutable(fs, <<"/", "s", "/", "a", ".", "s", "h">>)
    /\ ~isExecutable(fs, <<"/", "s", "/", "b", ".", "s", "h">>)
    /\ ~isExecutable(fs, <<"/", "s", "/", "c", ".", "s", "h">>)
    /\ exit = 1

\* the three candidate directories
ExecDir ==
    Dir(ExecPath)

HomeConfigDir ==
    Join(Join(UserHomeDir.dir, <<".", "c", "o", "n", "f", "i", "g">>), <<"s", "c", "r", "i", "p", "t", "s">>)

\* the directory holds the scripts subdirectory
HasScriptsBin(f, dir) ==
    StatIsDir(f, Join(dir, <<"s", "c", "r", "i", "p", "t", "s", "_", "b", "i", "n">>))

\* the resolution as stated: only a directory that holds the scripts
\* subdirectory is chosen by rule (a) or (b)
StatedDir(f) ==
    IF HasScriptsBin(f, ExecDir) THEN ExecDir
    ELSE IF HasScriptsBin(f, Getwd) THEN Getwd
    ELSE HomeConfigDir

\* the resolution with rule (a) also choosing the executable's directory
\* when it holds an entry named scripts with the owner-execute bit
ResolvedDir(f) ==
    IF HasScriptsBin(f, ExecDir) \/ isExecutable(f, Join(ExecDir, <<"s", "c", "r", "i", "p", "t", "s">>)) THEN ExecDir
    ELSE IF HasScriptsBin(f, Getwd) THEN Getwd
    ELSE HomeConfigDir

\* C25 as stated: load and save use the directory StatedDir gives.
C25_StatedOrder ==
    /\ IsLoad => loadConfigDir(pre).dir = StatedDir(pre)
    /\ IsSave => saveConfigDir(pre).dir = StatedDir(pre)

\* C25: load and save use the directory ResolvedDir gives, and a successful
\* save leaves the encoded config in .config.json of that directory.
C25_ResolutionOrder ==
    /\ IsLoad => loadConfigDir(pre) = [err |-> "ok", dir |-> ResolvedDir(pre)]
    /\ IsSave => saveConfigDir(pre) = [err |-> "ok", dir |-> ResolvedDir(pre)]
    /\ (IsSave /\ exit = 0) =>
          ReadFile(fs, Join(ResolvedDir(pre), ConfigName)).data =
              MarshalIndent([ScriptDir |-> argv[2], BinDir |-> argv[3]])

\* a load that resolved to the working directory: the executable's directory
\* holds neither scripts_bin nor scripts, the working directory holds
\* scripts_bin
C25_Witness ==
    /\ IsLoad
    /\ ~HasScriptsBin(pre, ExecDir)
    /\ ~isExecutable(pre, Join(ExecDir, <<"s", "c", "r", "i", "p", "t", "s">>))
    /\ HasScriptsBin(pre, Getwd)
    /\ Lookup(pre, <<"/", "w", "/", ".", "c", "o", "n", "f", "i", "g", ".", "j", "s", "o", "n">>).err # "ok"
    /\ Lookup(fs, <<"/", "w", "/", ".", "c", "o", "n", "f", "i", "g", ".", "j", "s", "o", "n">>).err = "ok"
    /\ exit = 0

\* the path starts at the root
IsAbs(path) ==
    HasPrefix(path, <<"/">>)

\* C26: every config a successful load returns has an absolute scriptDir and
\* an absolute binDir.
C26_AbsolutePaths ==
    (IsLoad /\ exit = 0) =>
        /\ IsAbs(out[1].a.ScriptDir)
        /\ IsAbs(out[1].a.BinDir)

\* C26 for the defaults of a first run: they are absolute
C26_DefaultsAbsolute ==
    (IsLoad /\ exit = 0 /\ Lookup(pre, ConfigPath(pre)).err # "ok") =>
        /\ IsAbs(out[1].a.ScriptDir)
        /\ IsAbs(out[1].a.BinDir)

\* the config file exists and its text is not a JSON config
MalformedConfig ==
    LET rd == ReadFile(pre, Join(loadConfigDir(pre).dir, <<".", "c", "o", "n", "f", "i", "g", ".", "j", "s", "o", "n">>)) IN
    rd.err = "ok" /\ Unmarshal(rd.data).err # "ok"

\* C27: with a malformed config file, an invocation with a command fails to
\* load the config with the parse error, prints the load error and nothing
\* else, exits 1, starts no process and leaves the filesystem, the config
\* file included, as it was.
C27_MalformedConfig ==
    (Ran /\ Len(argv) > 0 /\ MalformedConfig) =>
        /\ LC.err = "failed to parse config file"
        /\ out = <<Msg("Error loading config", <<>>)>>
        /\ exit = 1
        /\ procs = <<>>
        /\ fs = pre

\* rm a under a malformed config: a.sh is still there
C27_Witness ==
    /\ Ran
    /\ argv = <<<<"r", "m">>, <<"a">>>>
    /\ MalformedConfig
    /\ <<<<"s">>, <<"a", ".", "s", "h">>>> \in DOMAIN fs
    /\ fs[<<<<"e">>, <<".", "c", "o", "n", "f", "i", "g", ".", "j", "s", "o", "n">>>>] = pre[<<<<"e">>, <<".", "c", "o", "n", "f", "i", "g", ".", "j", "s", "o", "n">>>>]
    /\ exit = 1

\* the nodes whose mode the last invocation changed
ModeChanged ==
    {p \in DOMAIN pre \cap DOMAIN fs : fs[p].mode # pre[p].mode}

\* the node is a *.sh entry directly in the scripts directory
IsScriptEntry(p) ==
    /\ Len(p) = Len(NodePath(LC.config.ScriptDir)) + 1
    /\ SubSeq(p, 1, Len(p) - 1) = NodePath(LC.config.ScriptDir)
    /\ HasSuffix(p[Len(p)], <<".", "s", "h">>)

\* C28: ready -a changes the mode of no node other than *.sh entries
\* directly in the scripts directory, and creates and removes nothing, also
\* when the scripts directory does not exist or is not a directory.
C28_ReadyAllFrame ==
    IsReadyAll =>
        /\ \A p \in ModeChanged : IsScriptEntry(p)
        /\ DOMAIN fs = DOMAIN pre

\* C28 when the scripts directory is a directory
C28_ReadyAllFrameDir ==
    (IsReadyAll /\ StatIsDir(pre, LC.config.ScriptDir)) =>
        /\ \A p \in ModeChanged : IsScriptEntry(p)
        /\ DOMAIN fs = DOMAIN pre

\* the scripts of the scripts directory of f that have the owner-execute bit
ExecutableScripts(f) ==
    {p \in DOMAIN f :
        /\ Len(p) = 2
        /\ p[1] = NodePath(ScriptDirPath)[1]
        /\ HasSuffix(p[2], <<".", "s", "h">>)
        /\ HasBit(f[p].mode, 64)}

\* C29: no invocation of list, ready, add or a script removes a script or
\* clears the owner-execute bit of a script that had it.
C29_BitNeverCleared ==
    [][ExecutableScripts(fs) \subseteq ExecutableScripts(fs')]_vars

\* add a.sh copied over an executable a.sh of the scripts directory, which
\* is still executable
C29_Witness ==
    /\ IsAdd
    /\ exit = 0
    /\ <<<<"s">>, <<"a", ".", "s", "h">>>> \in ExecutableScripts(pre)
    /\ fs[<<<<"s">>, <<"a", ".", "s", "h">>>>].data # pre[<<<<"s">>, <<"a", ".", "s", "h">>>>].data
    /\ <<<<"s">>, <<"a", ".", "s", "h">>>> \in ExecutableScripts(fs)

\* the same in the second invocation of a run
C29_WitnessSequence ==
    /\ n = 2
    /\ IsAdd
    /\ exit = 0
    /\ <<<<"s">>, <<"a", ".", "s", "h">>>> \in ExecutableScripts(pre)
    /\ fs[<<<<"s">>, <<"a", ".", "s", "h">>>>].data # pre[<<<<"s">>, <<"a", ".", "s", "h">>>>].data
    /\ <<<<"s">>, <<"a", ".", "s", "h">>>> \in ExecutableScripts(fs)

\* ---------------------------------------------------------------------
\* C30: rm <name> deletes only a direct entry of the scripts directory and
\* rm --bin <name> only a direct entry of the binaries directory, for every
\* name argument, names with path separators or ".." components included.

Removed ==
    DOMAIN pre \ DOMAIN fs

DirectEntry(p, dir) ==
    Len(p) = Len(NodePath(dir)) + 1 /\ Under(p, NodePath(dir))

PlainName(name) ==
    /\ \A i \in 1..Len(name) : name[i] # "/"
    /\ name # <<".", ".">>

C30_RmConfined ==
    /\ IsRmScript => \A p \in Removed : DirectEntry(p, LC.config.ScriptDir)
    /\ IsRmBinary => \A p \in Removed : DirectEntry(p, LC.config.BinDir)

\* C30, restricted to names without a separator that are not "..": the
\* deleted file is the entry of that name in the configured directory.
C30_RmConfinedPlain ==
    /\ (IsRmScript /\ PlainName(argv[2])) =>
          \A p \in Removed : DirectEntry(p, LC.config.ScriptDir)
    /\ (IsRmBinary /\ PlainName(argv[3])) =>
          \A p \in Removed : DirectEntry(p, LC.config.BinDir)

C30_Witness ==
    /\ IsRmBinary
    /\ argv[3] = <<"m">>
    /\ Removed = {<<<<"b">>, <<"m">>>>}
    /\ exit = 0

C30_Escape ==
    /\ IsRmScript
    /\ argv[2] = <<".", ".", "/", "w", "/", "a">>
    /\ Removed = {<<<<"w">>, <<"a", ".", "s", "h">>>>}
    /\ exit = 0

====
